---- MODULE Spec2Model ----
(***************************************************************************)
(* Model of scripts/kitten_control.py: the process classifier, the context *)
(* extractors, the error scanner, the age formatter and the summary report *)
(* of KittenController.                                                    *)
(*                                                                         *)
(* Text is modelled at character level: a Python str is a sequence of      *)
(* one-character strings, so that lower(), strip(), split() and the        *)
(* substring and regular-expression tests are computed, not assumed.       *)
(* The emoji that prefix the category labels and the status words are left *)
(* out of the labels (the module is ASCII); the words are the source's.    *)
(***************************************************************************)
EXTENDS Integers, Sequences, FiniteSets, TLC

VARIABLES
    pc,          \* position of the running operation
    cmdline,     \* argument of _categorize_process / _extract_ssh_target
    env,         \* argument of _get_virtualenv
    now,         \* datetime.now(), in seconds
    created_at,  \* argument of the next _format_age call, in seconds
    ages,        \* the _format_age calls made so far: [created_at, age]
    text,        \* argument of _detect_errors
    ret,         \* the call made and the value it returned: [fn, val]
    exclude_self,   \* summary: argument exclude_self
    lines,          \* summary: argument lines
    data,           \* summary: what ls returned
    idx,            \* summary: position of the three nested loops in the traversal
    window_count,   \* summary: local window_count
    ready_windows,  \* summary: local ready_windows
    error_windows,  \* summary: local error_windows
    output_parts,   \* summary: local output_parts
    calls,          \* summary: the external commands run so far
    result          \* summary: the value returned

vars == <<pc, cmdline, env, now, created_at, ages, text, ret, exclude_self, lines, data, idx,
          window_count, ready_windows, error_windows, output_parts, calls, result>>

cmdVars == <<cmdline>>
envVars == <<env>>
ageVars == <<now, created_at, ages>>
scanVars == <<text>>
sumVars == <<exclude_self, lines, data, idx, window_count, ready_windows, error_windows,
             output_parts, calls, result>>

\* no call made yet
NoCall == [fn |-> "none"]

(***************************************************************************)
(* Python str and list primitives                                          *)
(***************************************************************************)

\* a string literal as the sequence of its characters
Str(s) == [i \in 1..Len(s) |-> SubSeq(s, i, i)]

\* Optional[...]: None, or a value
None == [none |-> TRUE]
Some(v) == [some |-> v]

UpperChars == Str("ABCDEFGHIJKLMNOPQRSTUVWXYZ")
LowerChars == Str("abcdefghijklmnopqrstuvwxyz")

\* the lower-case letter of each upper-case letter
LowerOf == [c \in {UpperChars[i] : i \in 1..26} |->
              LowerChars[CHOOSE i \in 1..26 : UpperChars[i] = c]]

\* str.lower() on one character
LowerChar(c) == IF c \in DOMAIN LowerOf THEN LowerOf[c] ELSE c

\* str.lower()
Lower(s) == [i \in 1..Len(s) |-> LowerChar(s[i])]

\* s.startswith(p)
StartsWith(s, p) == Len(s) >= Len(p) /\ SubSeq(s, 1, Len(p)) = p

\* p occurs in s at position i
OccursAt(s, p, i) == i >= 1 /\ i + Len(p) - 1 <= Len(s) /\ SubSeq(s, i, i + Len(p) - 1) = p

\* p in s
Contains(s, p) == \E i \in 1..(Len(s) - Len(p) + 1) : OccursAt(s, p, i)

\* sep.join(parts), sep a sequence of characters
RECURSIVE Join(_, _)
Join(parts, sep) ==
    IF Len(parts) = 0 THEN << >>
    ELSE IF Len(parts) = 1 THEN parts[1]
    ELSE parts[1] \o sep \o Join(Tail(parts), sep)

\* least and greatest element of a non-empty set of integers
Min(S) == CHOOSE i \in S : \A j \in S : i <= j
Max(S) == CHOOSE i \in S : \A j \in S : j <= i

\* s from the index after the last of the cut indices (all of s when there is none)
AfterLast(s, cuts) == IF cuts = {} THEN s ELSE SubSeq(s, Max(cuts) + 1, Len(s))

\* s.split(c)[-1]: what follows the last occurrence of the character c
LastSegment(s, c) == AfterLast(s, {i \in 1..Len(s) : s[i] = c})

\* a tuple of string literals (a, b, ...), and x in (a, b, ...)
Names(literals) == {Str(n) : n \in literals}
InNames(x, names) == x \in names

\* the characters str.strip() removes
WhiteSpace == {" ", "\t", "\n", "\r", "\f"}

\* s between the first and the last of the indices kept (empty when there is none)
Between(s, keep) == IF keep = {} THEN << >> ELSE SubSeq(s, Min(keep), Max(keep))

\* s.strip()
Strip(s) == Between(s, {i \in 1..Len(s) : s[i] \notin WhiteSpace})

\* s.split(c), reading s from index i with the piece cur under construction
RECURSIVE SplitFrom(_, _, _, _)
SplitFrom(s, c, i, cur) ==
    IF i > Len(s) THEN <<cur>>
    ELSE IF s[i] = c THEN <<cur>> \o SplitFrom(s, c, i + 1, << >>)
    ELSE SplitFrom(s, c, i + 1, Append(cur, s[i]))

Split(s, c) == SplitFrom(s, c, 1, << >>)

\* l[-n:] for n > 0
LastN(l, n) == IF Len(l) <= n THEN l ELSE SubSeq(l, Len(l) - n + 1, Len(l))

\* s.replace(c, r) for a character c and a string r
RECURSIVE ReplaceChar(_, _, _)
ReplaceChar(s, c, r) ==
    IF Len(s) = 0 THEN << >>
    ELSE (IF s[1] = c THEN r ELSE <<s[1]>>) \o ReplaceChar(Tail(s), c, r)

\* the last two statements of truncate, on the flattened and stripped text
Ellipsize(flat, max_len) ==
    IF Len(flat) > max_len THEN SubSeq(flat, 1, max_len - 3) \o Str("...") ELSE flat

\* truncate(text, max_len)
Truncate(t, max_len) ==
    IF Len(t) = 0 THEN << >>
    ELSE Ellipsize(Strip(ReplaceChar(ReplaceChar(t, "\n", Str(" ")), "\r", << >>)), max_len)

(***************************************************************************)
(* _categorize_process                                                     *)
(***************************************************************************)

ShellNames == Names({"zsh", "bash", "sh", "fish", "tcsh", "ksh", "-zsh", "-bash"})
EditorNames == Names({"vim", "nvim", "vi", "nano", "emacs", "code", "subl", "micro", "helix"})
BuildNamesWithoutGo == Names({"make", "cmake", "cargo", "gcc", "clang", "rustc", "npm", "yarn", "pnpm", "gradle", "mvn"})
BuildNames == Names({"make", "cmake", "cargo", "go", "gcc", "clang", "rustc", "npm", "yarn", "pnpm", "gradle", "mvn"})
TestNames == Names({"pytest", "jest", "mocha", "rspec", "go"})
ServerNames == Names({"node", "python", "ruby", "java", "uvicorn", "gunicorn", "nginx", "postgres", "redis"})
AgentNames == Names({"codex", "claude", "aider", "copilot"})
ContainerNames == Names({"docker", "podman", "kubectl", "k9s"})
ViewerNames == Names({"less", "more", "cat", "bat", "ranger", "mc", "htop", "top", "btop"})
ScriptNames == Names({"python", "python3", "node", "ruby", "perl"})

\* cmd = cmdline[0].lower(); base = cmd.split("/")[-1]
BaseName(cmdl) == LastSegment(Lower(cmdl[1]), "/")

\* full_cmd = " ".join(cmdline).lower()
FullCmd(cmdl) == Lower(Join(cmdl, Str(" ")))

\* the chain with the test rule tried before the build rule
CategoryTestBeforeBuild(base, full_cmd) ==
    IF InNames(base, ShellNames) THEN "shell"
    ELSE IF InNames(base, EditorNames) THEN "editor"
    ELSE IF InNames(base, TestNames) \/ Contains(full_cmd, Str("test")) THEN "test"
    ELSE IF InNames(base, BuildNames) THEN "build"
    ELSE IF InNames(base, ServerNames)
            /\ (Contains(full_cmd, Str("server")) \/ Contains(full_cmd, Str("serve"))
                \/ Contains(full_cmd, Str("run")))
         THEN "server"
    ELSE IF base = Str("ssh") \/ Contains(full_cmd, Str("ssh ")) THEN "ssh"
    ELSE IF InNames(base, AgentNames) \/ Contains(full_cmd, Str("codex"))
            \/ Contains(full_cmd, Str("claude"))
         THEN "agent"
    ELSE IF base = Str("git") THEN "git"
    ELSE IF InNames(base, ContainerNames) THEN "container"
    ELSE IF InNames(base, ViewerNames) THEN "viewer"
    ELSE IF base = Str("flutter") \/ Contains(full_cmd, Str("flutter")) THEN "flutter"
    ELSE IF InNames(base, ScriptNames) THEN "script"
    ELSE "process"

\* the agent rule tried before the ssh rule
CategoryAgentBeforeSsh(base, full_cmd) ==
    IF InNames(base, ShellNames) THEN "shell"
    ELSE IF InNames(base, EditorNames) THEN "editor"
    ELSE IF InNames(base, BuildNames) THEN "build"
    ELSE IF InNames(base, TestNames) \/ Contains(full_cmd, Str("test")) THEN "test"
    ELSE IF InNames(base, ServerNames)
            /\ (Contains(full_cmd, Str("server")) \/ Contains(full_cmd, Str("serve"))
                \/ Contains(full_cmd, Str("run")))
         THEN "server"
    ELSE IF InNames(base, AgentNames) \/ Contains(full_cmd, Str("codex"))
            \/ Contains(full_cmd, Str("claude"))
         THEN "agent"
    ELSE IF base = Str("ssh") \/ Contains(full_cmd, Str("ssh ")) THEN "ssh"
    ELSE IF base = Str("git") THEN "git"
    ELSE IF InNames(base, ContainerNames) THEN "container"
    ELSE IF InNames(base, ViewerNames) THEN "viewer"
    ELSE IF base = Str("flutter") \/ Contains(full_cmd, Str("flutter")) THEN "flutter"
    ELSE IF InNames(base, ScriptNames) THEN "script"
    ELSE "process"

\* the chain of rules, in the order of the source
CategoryOf(base, full_cmd) ==
    IF InNames(base, ShellNames) THEN "shell"
    ELSE IF InNames(base, EditorNames) THEN "editor"
    ELSE IF InNames(base, BuildNames) THEN "build"
    ELSE IF InNames(base, TestNames) \/ Contains(full_cmd, Str("test")) THEN "test"
    ELSE IF InNames(base, ServerNames)
            /\ (Contains(full_cmd, Str("server")) \/ Contains(full_cmd, Str("serve"))
                \/ Contains(full_cmd, Str("run")))
         THEN "server"
    ELSE IF base = Str("ssh") \/ Contains(full_cmd, Str("ssh ")) THEN "ssh"
    ELSE IF InNames(base, AgentNames) \/ Contains(full_cmd, Str("codex"))
            \/ Contains(full_cmd, Str("claude"))
         THEN "agent"
    ELSE IF base = Str("git") THEN "git"
    ELSE IF InNames(base, ContainerNames) THEN "container"
    ELSE IF InNames(base, ViewerNames) THEN "viewer"
    ELSE IF base = Str("flutter") \/ Contains(full_cmd, Str("flutter")) THEN "flutter"
    ELSE IF InNames(base, ScriptNames) THEN "script"
    ELSE "process"

CategorizeProcess(cmdl) ==
    IF Len(cmdl) = 0 THEN "unknown" ELSE CategoryOf(BaseName(cmdl), FullCmd(cmdl))

(***************************************************************************)
(* _extract_ssh_target                                                     *)
(***************************************************************************)

\* ssh options that take an argument
SshValueOptions == Names({"-i", "-p", "-l", "-o", "-F", "-J", "-W", "-L", "-R", "-D"})

\* the loop without skip_next: an option that takes a value is skipped as a
\* flag and its value is looked at
RECURSIVE SshScanValuesKept(_, _, _)
SshScanValuesKept(cmdl, i, skip_next) ==
    IF i > Len(cmdl) THEN None
    ELSE IF StartsWith(cmdl[i], Str("-")) THEN SshScanValuesKept(cmdl, i + 1, FALSE)
    ELSE IF LastSegment(cmdl[i], "/") = Str("ssh") THEN SshScanValuesKept(cmdl, i + 1, FALSE)
    ELSE Some(cmdl[i])

\* the for loop over cmdline, from index i with the flag skip_next
RECURSIVE SshScan(_, _, _)
SshScan(cmdl, i, skip_next) ==
    IF i > Len(cmdl) THEN None
    ELSE IF skip_next THEN SshScan(cmdl, i + 1, FALSE)
    ELSE IF InNames(cmdl[i], SshValueOptions) THEN SshScan(cmdl, i + 1, TRUE)
    ELSE IF StartsWith(cmdl[i], Str("-")) THEN SshScan(cmdl, i + 1, FALSE)
    ELSE IF LastSegment(cmdl[i], "/") = Str("ssh") THEN SshScan(cmdl, i + 1, FALSE)
    ELSE Some(cmdl[i])

ExtractSshTarget(cmdl) ==
    IF Len(cmdl) = 0 THEN None
    ELSE IF ~Contains(Lower(Join(cmdl, Str(" "))), Str("ssh "))
            /\ LastSegment(cmdl[1], "/") # Str("ssh")
         THEN None
    ELSE SshScan(cmdl, 1, FALSE)

(***************************************************************************)
(* _detect_errors                                                          *)
(* The module is ASCII, so three characters stand for characters of the    *)
(* source that a TLA+ string cannot hold: "#" for the prompt glyph U+276F, *)
(* "~" for the prompt glyph U+203A and "^" for the escape character \x1b.  *)
(***************************************************************************)

\* lines[-30:]
RecentLines == 30

\* if len(errors) >= 3: break
MaxErrors == 3

\* truncate(clean_line, 60)
ExcerptLen == 60

Digits == {"0", "1", "2", "3", "4", "5", "6", "7", "8", "9"}

\* \w
WordChars == {LowerChars[i] : i \in 1..26} \cup {UpperChars[i] : i \in 1..26} \cup Digits \cup {"_"}

IsWordAt(l, k) == k \in 1..Len(l) /\ l[k] \in WordChars

\* \b in front of the character at index i
WordBoundary(l, i) == IsWordAt(l, i - 1) # IsWordAt(l, i)

\* a.*b
ContainsThen(l, a, b) ==
    \E i \in 1..Len(l) : /\ OccursAt(l, a, i)
                         /\ \E j \in (i + Len(a))..Len(l) : OccursAt(l, b, j)

\* the shapes of the regular expressions of error_patterns
Prefix(lit) == [kind |-> "prefix", a |-> Str(lit)]               \* ^lit
Anywhere(lit) == [kind |-> "anywhere", a |-> Str(lit)]           \* lit
Then(lit1, lit2) == [kind |-> "then", a |-> Str(lit1), b |-> Str(lit2)]    \* lit1.*lit2

\* error_patterns: (regular expression, description), in list order; re is
\* the expression as one of the shapes:
\*   word_then   \ba\b.*b           word_start  \ba
\*   clock_then  ^\d{2}:\d{2}:\d{2}a             either      a|b
ErrorPatterns == <<
    [pattern |-> "^error:", description |-> "Error",
     re |-> Prefix("error:")],
    [pattern |-> "^error\\[", description |-> "Compiler error",
     re |-> Prefix("error[")],
    [pattern |-> "\\berror\\b.*:", description |-> "Error",
     re |-> [kind |-> "word_then", a |-> Str("error"), b |-> Str(":")]],
    [pattern |-> "\\berror \\[", description |-> "Error",
     re |-> [kind |-> "word_start", a |-> Str("error [")]],
    [pattern |-> "^\\d{2}:\\d{2}:\\d{2} error", description |-> "Error",
     re |-> [kind |-> "clock_then", a |-> Str(" error")]],
    [pattern |-> "^exception:", description |-> "Exception",
     re |-> Prefix("exception:")],
    [pattern |-> "exception:", description |-> "Exception",
     re |-> Anywhere("exception:")],
    [pattern |-> "^traceback", description |-> "Python traceback",
     re |-> Prefix("traceback")],
    [pattern |-> "^fatal:", description |-> "Fatal error",
     re |-> Prefix("fatal:")],
    [pattern |-> "^panic:", description |-> "Panic/crash",
     re |-> Prefix("panic:")],
    [pattern |-> "segmentation fault", description |-> "Segmentation fault",
     re |-> Anywhere("segmentation fault")],
    [pattern |-> "^permission denied", description |-> "Permission denied",
     re |-> Prefix("permission denied")],
    [pattern |-> "command not found", description |-> "Command not found",
     re |-> Anywhere("command not found")],
    [pattern |-> "^syntaxerror:", description |-> "Syntax error",
     re |-> Prefix("syntaxerror:")],
    [pattern |-> "compilation failed", description |-> "Compilation failed",
     re |-> Anywhere("compilation failed")],
    [pattern |-> "build failed", description |-> "Build failed",
     re |-> Anywhere("build failed")],
    [pattern |-> "tests? failed", description |-> "Test failed",
     re |-> [kind |-> "either", a |-> Str("test failed"), b |-> Str("tests failed")]],
    [pattern |-> "^failed:", description |-> "Failed",
     re |-> Prefix("failed:")],
    [pattern |-> "npm err!", description |-> "NPM error",
     re |-> Anywhere("npm err!")],
    [pattern |-> "unhandled.*exception", description |-> "Unhandled exception",
     re |-> Then("unhandled", "exception")],
    [pattern |-> "unhandled.*rejection", description |-> "Unhandled rejection",
     re |-> Then("unhandled", "rejection")],
    [pattern |-> "stack trace:", description |-> "Stack trace",
     re |-> Anywhere("stack trace:")],
    [pattern |-> "^\\[error\\]", description |-> "Error",
     re |-> Prefix("[error]")],
    [pattern |-> "error:.*failed", description |-> "Error",
     re |-> Then("error:", "failed")] >>

\* re.search of an expression of the given shape in l
Matches(re, l) ==
    CASE re.kind = "prefix" -> StartsWith(l, re.a)
      [] re.kind = "anywhere" -> Contains(l, re.a)
      [] re.kind = "then" -> ContainsThen(l, re.a, re.b)
      [] re.kind = "either" -> Contains(l, re.a) \/ Contains(l, re.b)
      [] re.kind = "word_start" ->
            \E i \in 1..Len(l) : WordBoundary(l, i) /\ OccursAt(l, re.a, i)
      [] re.kind = "word_then" ->
            \E i \in 1..Len(l) :
                /\ WordBoundary(l, i) /\ OccursAt(l, re.a, i)
                /\ WordBoundary(l, i + Len(re.a))
                /\ \E j \in (i + Len(re.a))..Len(l) : OccursAt(l, re.b, j)
      [] re.kind = "clock_then" ->
            /\ Len(l) >= 8
            /\ \A i \in {1, 2, 4, 5, 7, 8} : l[i] \in Digits
            /\ l[3] = ":" /\ l[6] = ":"
            /\ OccursAt(l, re.a, 9)

\* re.search(error_patterns[k][0], l)
ReSearch(k, l) == Matches(ErrorPatterns[k].re, l)

PromptGlyphs == {"#", "~", "$", "%", ">"}

LogLevelPrefixes == {Str("info"), Str("warn"), Str("debug"), Str("notice")}

\* the escape character \x1b
Esc == "^"

\* the index that ends the run of [0-9;] starting at index i; 0 if s ends first
RunEnd(s, i) ==
    IF \E j \in i..Len(s) : s[j] \notin Digits \cup {";"}
    THEN Min({j \in i..Len(s) : s[j] \notin Digits \cup {";"}})
    ELSE 0

RECURSIVE StripAnsiFrom(_, _)

\* an escape sequence starts at index i exactly when the run after "\x1b[" ends in "m"
StripAnsiAt(s, i, stop) ==
    IF s[i] = Esc /\ i < Len(s) /\ s[i + 1] = "[" /\ stop # 0 /\ s[stop] = "m"
    THEN StripAnsiFrom(s, stop + 1)
    ELSE <<s[i]>> \o StripAnsiFrom(s, i + 1)

\* re.sub(r'\x1b\[[0-9;]*m', '', s), reading s from index i
StripAnsiFrom(s, i) == IF i > Len(s) THEN << >> ELSE StripAnsiAt(s, i, RunEnd(s, i + 2))

\* the last of the matching pattern indices instead of the first
FirstOfReversed(hits) == IF hits = {} THEN 0 ELSE Max(hits)

\* the first of the matching pattern indices; 0 if none
FirstOf(hits) == IF hits = {} THEN 0 ELSE Min(hits)

\* the first pattern of the list that the line matches, seen or not; 0 if none
FirstMatchSeenOrNot(line_lower, seen_patterns) ==
    FirstOf({k \in 1..Len(ErrorPatterns) : ReSearch(k, line_lower)})

\* the first pattern of the list, not yet seen, that the line matches; 0 if none
FirstMatch(line_lower, seen_patterns) ==
    FirstOf({k \in 1..Len(ErrorPatterns) : k \notin seen_patterns /\ ReSearch(k, line_lower)})

\* only empty lines and prompt lines are skipped
IsSkippedLineKeepingLogLevels(line_lower) ==
    \/ Len(line_lower) = 0
    \/ line_lower[1] \in PromptGlyphs

\* the line is skipped before any pattern is tried
IsSkippedLine(line_lower) ==
    \/ Len(line_lower) = 0
    \/ line_lower[1] \in PromptGlyphs
    \/ \E p \in LogLevelPrefixes : StartsWith(line_lower, p)

\* the match is recorded without seen_patterns.add(pattern)
RecordMatchNotSeen(st, i, line, k) ==
    IF k = 0 THEN st
    ELSE [st EXCEPT
            !.errors = Append(@, [description |-> ErrorPatterns[k].description,
                                  line |-> Truncate(StripAnsiFrom(Strip(line), 1), ExcerptLen)]),
            !.fired = Append(@, [line |-> i, pattern |-> k])]

\* the body of "if re.search(pattern, line_lower)" for the pattern k that
\* line i matched (k = 0: no pattern matched).  st holds errors and
\* seen_patterns, and records which line fired which pattern.
RecordMatch(st, i, line, k) ==
    IF k = 0 THEN st
    ELSE [st EXCEPT
            !.errors = Append(@, [description |-> ErrorPatterns[k].description,
                                  line |-> Truncate(StripAnsiFrom(Strip(line), 1), ExcerptLen)]),
            !.seen_patterns = @ \cup {k},
            !.fired = Append(@, [line |-> i, pattern |-> k])]

RECURSIVE ScanLines(_, _, _)

\* the loop without "if len(errors) >= 3: break"
NeverBreak(recent_lines, i, st) == ScanLines(recent_lines, i + 1, st)

\* "if len(errors) >= 3: break" after line i, else on to the next line
BreakOrContinue(recent_lines, i, st) ==
    IF Len(st.errors) >= MaxErrors THEN [st EXCEPT !.examined = i]
    ELSE ScanLines(recent_lines, i + 1, st)

\* the for loop over recent_lines from index i (line_lower is
\* Strip(Lower(recent_lines[i]))); the result adds the number of lines the
\* loop examined
ScanLines(recent_lines, i, st) ==
    IF i > Len(recent_lines) THEN [st EXCEPT !.examined = Len(recent_lines)]
    ELSE IF IsSkippedLine(Strip(Lower(recent_lines[i]))) THEN ScanLines(recent_lines, i + 1, st)
    ELSE BreakOrContinue(recent_lines, i,
             RecordMatch(st, i, recent_lines[i],
                         FirstMatch(Strip(Lower(recent_lines[i])), st.seen_patterns)))

\* recent_lines = text.split('\n')[-30:]
RecentLinesOf(t) == LastN(Split(t, "\n"), RecentLines)

NoErrors == [errors |-> << >>, seen_patterns |-> {}, fired |-> << >>, examined |-> 0]

\* the scan of _detect_errors: .errors is the list it returns
DetectScan(t) ==
    IF Len(t) = 0 THEN NoErrors
    ELSE ScanLines(RecentLinesOf(t), 1, NoErrors)

DetectErrors(t) == DetectScan(t).errors

(***************************************************************************)
(* _get_virtualenv                                                         *)
(***************************************************************************)

\* d.get(key, default)
DictGet(d, key, default) == IF key \in DOMAIN d THEN d[key] ELSE default

\* CONDA_DEFAULT_ENV looked at before VIRTUAL_ENV
GetVirtualenvCondaFirst(e) ==
    LET venv == DictGet(e, "VIRTUAL_ENV", << >>)
        conda == DictGet(e, "CONDA_DEFAULT_ENV", << >>)
    IN  IF conda # << >> /\ conda # Str("base") THEN Some(Str("conda:") \o conda)
        ELSE IF venv # << >> THEN Some(LastSegment(venv, "/"))
        ELSE None

GetVirtualenv(e) ==
    LET venv == DictGet(e, "VIRTUAL_ENV", << >>)
        conda == DictGet(e, "CONDA_DEFAULT_ENV", << >>)
    IN  IF venv # << >> THEN Some(LastSegment(venv, "/"))
        ELSE IF conda # << >> /\ conda # Str("base") THEN Some(Str("conda:") \o conda)
        ELSE None

(***************************************************************************)
(* _format_age                                                             *)
(* Timestamps are in whole seconds: created_at stands for                  *)
(* created_at_ns / 1_000_000_000 and now for datetime.now().  A timedelta  *)
(* of e seconds has days = e div 86400 and seconds = e mod 86400 (floor).  *)
(***************************************************************************)

UnknownAge == [unit |-> "unknown", n |-> 0]

\* delta.seconds used without looking at delta.days
FormatAgeWithoutDays(created, current) ==
    IF created = 0 THEN UnknownAge
    ELSE LET seconds == (current - created) % 86400
         IN  IF seconds >= 3600 THEN [unit |-> "h", n |-> seconds \div 3600]
             ELSE IF seconds >= 60 THEN [unit |-> "m", n |-> seconds \div 60]
             ELSE [unit |-> "s", n |-> seconds]

\* an hour or a minute is reached only when exceeded
FormatAgeStrict(created, current) ==
    IF created = 0 THEN UnknownAge
    ELSE LET delta == current - created
             days == delta \div 86400
             seconds == delta % 86400
         IN  IF days > 0 THEN [unit |-> "d", n |-> days]
             ELSE IF seconds > 3600 THEN [unit |-> "h", n |-> seconds \div 3600]
             ELSE IF seconds > 60 THEN [unit |-> "m", n |-> seconds \div 60]
             ELSE [unit |-> "s", n |-> seconds]

FormatAge(created, current) ==
    IF created = 0 THEN UnknownAge
    ELSE LET delta == current - created
             days == delta \div 86400
             seconds == delta % 86400
         IN  IF days > 0 THEN [unit |-> "d", n |-> days]
             ELSE IF seconds >= 3600 THEN [unit |-> "h", n |-> seconds \div 3600]
             ELSE IF seconds >= 60 THEN [unit |-> "m", n |-> seconds \div 60]
             ELSE [unit |-> "s", n |-> seconds]

\* what a caller can pass for created_at_ns besides a timestamp: None, and a
\* value datetime.fromtimestamp raises on (out of range, or not a number)
AbsentTimestamp == [kind |-> "absent"]
Unconvertible == [kind |-> "unconvertible"]

\* _format_age for any argument: "if not created_at_ns" answers for None as
\* for 0, and the except clause answers for a failed conversion
FormatAgeOf(created_at_ns, current) ==
    IF created_at_ns.kind = "absent" THEN UnknownAge
    ELSE IF created_at_ns.kind = "unconvertible" THEN UnknownAge
    ELSE FormatAge(created_at_ns.at, current)

(***************************************************************************)
(* run_kitten, ls, get_text, _get_git_branch                               *)
(* What a subprocess does is one of: it exits with (returncode, stdout,    *)
(* stderr), the timeout expires, or the binary is missing.  The stdout of  *)
(* "kitten @ ls" is stood for by [json |-> tree] when it decodes and by    *)
(* [raw |-> characters] when it does not.                                  *)
(***************************************************************************)

\* run_kitten: (returncode, stdout, stderr)
RunKitten(outcome) ==
    CASE outcome.kind = "timeout" ->
            [rc |-> 1, stdout |-> << >>, stderr |-> Str("Command timed out")]
      [] outcome.kind = "missing" ->
            [rc |-> 1, stdout |-> << >>,
             stderr |-> Str("kitten command not found. Is Kitty installed?")]
      [] OTHER -> [rc |-> outcome.rc, stdout |-> outcome.stdout, stderr |-> outcome.stderr]

\* a listing that does not decode is reported without its text
LsWithoutRaw(answer) ==
    IF answer.rc # 0
    THEN [error |-> IF Len(answer.stderr) > 0 THEN answer.stderr
                    ELSE Str("Failed to list windows")]
    ELSE IF "json" \in DOMAIN answer.stdout THEN [value |-> answer.stdout.json]
    ELSE [error |-> Str("Invalid JSON response")]

\* ls: [error |-> ...] (with raw for a listing that does not decode), or the
\* decoded listing as [value |-> tree]
Ls(answer) ==
    IF answer.rc # 0
    THEN [error |-> IF Len(answer.stderr) > 0 THEN answer.stderr
                    ELSE Str("Failed to list windows")]
    ELSE IF "json" \in DOMAIN answer.stdout THEN [value |-> answer.stdout.json]
    ELSE [error |-> Str("Invalid JSON response"), raw |-> answer.stdout.raw]

\* "error" in data
HasError(d) == "error" \in DOMAIN d

\* get_text
GetText(answer) == IF answer.rc # 0 THEN Str("Error: ") \o answer.stderr ELSE answer.stdout

\* result.stdout.strip() of a successful branch query: the branch, or None when empty
BranchOf(branch) == IF Len(branch) > 0 THEN Some(branch) ELSE None

\* _get_git_branch: outcome.kind is "exit", or "raised" for anything the
\* bare except catches
GetGitBranch(outcome) ==
    IF outcome.kind = "exit" /\ outcome.rc = 0 THEN BranchOf(Strip(outcome.stdout))
    ELSE None

(***************************************************************************)
(* summary                                                                 *)
(* output_parts is kept as the list of its parts, each part a record that  *)
(* names the piece of markdown and holds the values put into it; the       *)
(* report returned is the list joined with "\n".                           *)
(***************************************************************************)

TabTitleLen == 30
CommandLen == 50
ReadyShown == 10

\* the concatenation of a list of lists
RECURSIVE Concat(_)
Concat(ls) == IF Len(ls) = 0 THEN << >> ELSE ls[1] \o Concat(Tail(ls))

\* the windows in the order of the three nested loops, each with its tab
Traversal(tree) ==
    Concat([o \in 1..Len(tree) |->
        Concat([t \in 1..Len(tree[o].tabs) |->
            [w \in 1..Len(tree[o].tabs[t].windows) |->
                [os_id |-> tree[o].id,
                 tab_id |-> tree[o].tabs[t].id,
                 tab_title |-> tree[o].tabs[t].title,
                 win |-> tree[o].tabs[t].windows[w]]]])])

\* "if x:" for an Optional[str]
Truthy(opt) == "some" \in DOMAIN opt /\ Len(opt.some) > 0

\* s.rstrip(c) for a character c
RstripChar(s, c) == SubSeq(s, 1, Max({0} \cup {i \in 1..Len(s) : s[i] # c}))

\* l[start:]
SliceFrom(l, start) ==
    SubSeq(l, (IF start < 0 THEN Max({Len(l) + start, 0}) ELSE Min({start, Len(l)})) + 1, Len(l))

\* the four parts before the loops
ReportHeader(n, current) ==
    <<[kind |-> "title"],
      [kind |-> "generated", at |-> current],
      [kind |-> "showing", lines |-> n, extent |-> "screen"],
      [kind |-> "rule"]>>

\* fg_cmd: the command line of the first foreground process, [] when there is none
ForegroundCmd(win) ==
    IF Len(win.foreground_processes) > 0 THEN win.foreground_processes[1].cmdline ELSE << >>

ForegroundCwd(win) ==
    IF Len(win.foreground_processes) > 0 THEN win.foreground_processes[1].cwd ELSE win.cwd

ForegroundPid(win) ==
    IF Len(win.foreground_processes) > 0 THEN win.foreground_processes[1].pid ELSE win.pid

\* fg_cmd_str
ForegroundCmdStr(fg_cmd) == IF Len(fg_cmd) > 0 THEN Join(fg_cmd, Str(" ")) ELSE Str("shell")

StatusOf(win) ==
    IF win.is_focused THEN "FOCUSED" ELSE IF win.is_active THEN "ACTIVE" ELSE "IDLE"

PromptIndicator(win) == IF win.at_prompt THEN "READY" ELSE "BUSY"

Row(name, value) == [kind |-> "row", name |-> name, value |-> value]

\* the row is emitted whatever its value
OptionalRowAlways(name, opt) == <<Row(name, opt)>>

\* a row that is emitted only when its value is truthy
OptionalRow(name, opt) == IF Truthy(opt) THEN <<Row(name, opt.some)>> ELSE << >>

\* the heading and the table of one window
WindowTable(entry, win, fg_cmd, process_type, git_branch, current) ==
    <<[kind |-> "window_header", win_id |-> win.id, status |-> StatusOf(win),
       prompt_indicator |-> PromptIndicator(win), process_type |-> process_type],
      [kind |-> "table_head"],
      [kind |-> "table_rule"],
      Row("Window ID", win.id),
      Row("Status", [indicator |-> PromptIndicator(win),
                     note |-> IF win.at_prompt THEN "Can receive commands"
                              ELSE "Running a process"]),
      Row("Process", process_type),
      Row("Tab", [id |-> entry.tab_id, title |-> Truncate(entry.tab_title, TabTitleLen)]),
      Row("Size", [columns |-> win.columns, lines |-> win.lines]),
      Row("CWD", ForegroundCwd(win)),
      Row("PID", ForegroundPid(win)),
      Row("Command", Truncate(ForegroundCmdStr(fg_cmd), CommandLen)),
      Row("Session Age", FormatAge(win.created_at, current))>>
    \o OptionalRow("Git Branch", git_branch)
    \o OptionalRow("SSH Target", ExtractSshTarget(fg_cmd))
    \o OptionalRow("Virtual Env", GetVirtualenv(win.env))
    \o <<[kind |-> "blank"]>>

\* errors = self._detect_errors(text) if text else []
ErrorsOf(txt) == IF Len(txt) > 0 THEN DetectErrors(txt) ELSE << >>

\* the block of the errors detected, when there are any
ErrorBlock(errors) ==
    IF Len(errors) > 0
    THEN <<[kind |-> "errors_title"]>>
         \o [i \in 1..Len(errors) |-> [kind |-> "error_item", err |-> errors[i]]]
         \o <<[kind |-> "blank"]>>
    ELSE << >>

QuickCommands(win_id) ==
    <<[kind |-> "quick_title"],
      [kind |-> "quick", command |-> "send-text", win_id |-> win_id],
      [kind |-> "quick", command |-> "send-key", win_id |-> win_id],
      [kind |-> "quick", command |-> "get-text", win_id |-> win_id],
      [kind |-> "quick", command |-> "focus", win_id |-> win_id],
      [kind |-> "blank"]>>

\* text_lines = text.rstrip('\n').split('\n'): the lines of a window text
TextLines(txt) == Split(RstripChar(txt, "\n"), "\n")

\* the fenced block of the last n of text_lines, with the notice when clipped
FencedTail(text_lines, n) ==
    (IF Len(text_lines) > n THEN <<[kind |-> "truncated", lines |-> n]>> ELSE << >>)
    \o <<[kind |-> "fence"],
         [kind |-> "text",
          text |-> Join(IF Len(text_lines) > n THEN SliceFrom(text_lines, 0 - n)
                        ELSE text_lines, Str("\n"))],
         [kind |-> "fence"]>>

\* the text is shown whatever it starts with
TextBlockUnchecked(txt, n) ==
    IF Len(txt) > 0 THEN FencedTail(TextLines(txt), n)
    ELSE <<[kind |-> "no_output"]>>

\* if text and not text.startswith("Error:"): ... else: "*No output available*"
TextBlock(txt, n) ==
    IF Len(txt) > 0 /\ ~StartsWith(txt, Str("Error:"))
    THEN FencedTail(TextLines(txt), n)
    ELSE <<[kind |-> "no_output"]>>

\* everything one pass of the innermost loop appends for a window that is not skipped
WindowSection(entry, git_branch, txt, errors, n, current) ==
    WindowTable(entry, entry.win, ForegroundCmd(entry.win),
                CategorizeProcess(ForegroundCmd(entry.win)), git_branch, current)
    \o ErrorBlock(errors)
    \o QuickCommands(entry.win.id)
    \o TextBlock(txt, n)
    \o <<[kind |-> "section_end"]>>

\* the Summary block with every ready id displayed
AggregateUncapped(count, ready, errs) ==
    IF count = 0 THEN <<[kind |-> "no_windows"]>>
    ELSE <<[kind |-> "summary_title"],
           [kind |-> "total", n |-> count],
           [kind |-> "ready", n |-> Len(ready), ids |-> ready]>>
         \o (IF Len(errs) > 0 THEN <<[kind |-> "errors", n |-> Len(errs), ids |-> errs]>>
             ELSE << >>)

\* the Summary block is appended whatever the window count
AggregateAlways(count, ready, errs) ==
    <<[kind |-> "summary_title"],
      [kind |-> "total", n |-> count],
      [kind |-> "ready", n |-> Len(ready), ids |-> SubSeq(ready, 1, Min({Len(ready), ReadyShown}))]>>
    \o (IF Len(errs) > 0 THEN <<[kind |-> "errors", n |-> Len(errs), ids |-> errs]>> ELSE << >>)

\* the parts appended after the loops
Aggregate(count, ready, errs) ==
    IF count = 0 THEN <<[kind |-> "no_windows"]>>
    ELSE <<[kind |-> "summary_title"],
           [kind |-> "total", n |-> count],
           [kind |-> "ready", n |-> Len(ready),
            ids |-> SubSeq(ready, 1, Min({Len(ready), ReadyShown}))]>>
         \o (IF Len(errs) > 0 THEN <<[kind |-> "errors", n |-> Len(errs), ids |-> errs]>>
             ELSE << >>)

(***************************************************************************)
(* Command lines given to the classifier and to the ssh extractor          *)
(***************************************************************************)

\* number of arguments after the command
MaxArgs == 2

Commands ==
    {"git", "/usr/bin/git", "Git", "ssh", "SSH", "/usr/bin/ssh", "sudo", "zsh", "vim",
     "npm", "go", "pytest", "python", "claude", "docker", "less", "flutter", "ls"}

Arguments == {"commit", "test-branch", "ssh", "-p", "-v", "host", "serve", "claude"}

RECURSIVE ArgLists(_)
ArgLists(n) ==
    IF n = 0 THEN { << >> }
    ELSE LET shorter == ArgLists(n - 1)
         IN  shorter \cup {Append(l, Str(a)) : l \in {x \in shorter : Len(x) = n - 1}, a \in Arguments}

\* the command line of section 8's ssh scenario
SshScenario == <<Str("ssh"), Str("-i"), Str("/k.pem"), Str("-p"), Str("2222"), Str("prod.example.com")>>

\* an npm script whose name holds "test"
NpmScenario == <<Str("npm"), Str("run"), Str("test:unit")>>

\* the test command of the go tool
GoScenario == <<Str("go"), Str("test"), Str("./...")>>

CmdLines ==
    { << >> } \cup {<<Str(c)>> \o l : c \in Commands, l \in ArgLists(MaxArgs)}
    \cup {SshScenario, NpmScenario, GoScenario}

(***************************************************************************)
(* Environment mappings given to _get_virtualenv                           *)
(***************************************************************************)

EnvValues ==
    [VIRTUAL_ENV |-> {"", "/home/u/proj/.venv", "venv", "/opt/envs/py3/", "/srv/base"},
     CONDA_DEFAULT_ENV |-> {"", "base", "ml", "Base"},
     HOME |-> {"/home/u"}]

Envs ==
    UNION {{[k \in keys |-> Str(f[k])] : f \in {g \in [keys -> UNION {EnvValues[k] : k \in keys}] :
                                                  \A k \in keys : g[k] \in EnvValues[k]}}
           : keys \in SUBSET DOMAIN EnvValues}

(***************************************************************************)
(* Timestamps given to _format_age                                         *)
(***************************************************************************)

\* datetime.now(), seconds since the epoch
NowSec == 400000

\* how far around each unit boundary the elapsed times are sampled
Margin == 1

\* number of _format_age calls in one run
MaxAgeCalls == 2

ElapsedSamples ==
    UNION {(b - Margin)..(b + Margin) : b \in {0, 60, 120, 3600, 7200, 86400, 172800}}

\* 0 is the absent timestamp; NowSec - e lies e seconds back (ahead if e < 0)
Timestamps == {0} \cup {NowSec - e : e \in ElapsedSamples}

(***************************************************************************)
(* Texts given to _detect_errors                                           *)
(***************************************************************************)

\* number of lines drawn freely at the end of a text
MaxLines == 3

ScanVocabulary ==
    {"Building...", "ERROR: compilation failed", "make: *** Error 1", "  Tests failed",
     "$ error: typo", "WARN: build failed", ""}

RECURSIVE LineLists(_)
LineLists(n) ==
    IF n = 0 THEN { << >> }
    ELSE LET shorter == LineLists(n - 1)
         IN  shorter \cup {Append(l, Str(a)) : l \in {x \in shorter : Len(x) = n - 1},
                                               a \in ScanVocabulary}

\* an old line followed by n lines of filler: scrollback above the free lines
OldLine == Str("panic: old")

Scrollback(n) == <<OldLine>> \o [i \in 1..n |-> Str(".")]

\* no scrollback, or enough of it that the free lines decide whether the old
\* line is still among the recent lines
ScanPrefixes == {<< >>, Scrollback(RecentLines - 4)}

\* the text with the given lines, with or without a final line terminator
TextOf(text_lines, terminated) == Join(text_lines, Str("\n")) \o (IF terminated THEN Str("\n") ELSE << >>)

ScanTexts ==
    {TextOf(p \o b, t) : p \in ScanPrefixes, b \in LineLists(MaxLines), t \in BOOLEAN}

(***************************************************************************)
(* Listings, window texts and branch queries given to summary              *)
(***************************************************************************)

\* number of windows in a listing
MaxWindows == 2

\* values of the argument lines: one that clips the longest text, and the default
LinesValues == {2, 20}

Proc(cmdl, cwd, pid) == [cmdline |-> cmdl, cwd |-> Str(cwd), pid |-> pid]

\* the window the command runs in
SelfWindow ==
    [id |-> 0, is_self |-> TRUE, title |-> Str("claude"), cwd |-> Str("/home/u/proj"),
     pid |-> 100, is_focused |-> TRUE, is_active |-> TRUE, at_prompt |-> FALSE,
     columns |-> 80, lines |-> 24, created_at |-> NowSec - 3700,
     env |-> [VIRTUAL_ENV |-> Str("/home/u/proj/.venv")],
     foreground_processes |-> <<Proc(<<Str("claude")>>, "/home/u/proj", 101)>>]

\* a window at its prompt, listed with no foreground process
IdleShell ==
    [id |-> 0, is_self |-> FALSE, title |-> Str("~"), cwd |-> Str("/home/u"),
     pid |-> 200, is_focused |-> FALSE, is_active |-> FALSE, at_prompt |-> TRUE,
     columns |-> 80, lines |-> 24, created_at |-> 0,
     env |-> << >>,
     foreground_processes |-> << >>]

\* a window running ssh from another directory than the window's
SshWindow ==
    [id |-> 0, is_self |-> FALSE, title |-> Str("prod"), cwd |-> Str("/home/u"),
     pid |-> 300, is_focused |-> FALSE, is_active |-> TRUE, at_prompt |-> FALSE,
     columns |-> 120, lines |-> 40, created_at |-> NowSec - 90,
     env |-> [CONDA_DEFAULT_ENV |-> Str("ml")],
     foreground_processes |->
        <<Proc(<<Str("ssh"), Str("-p"), Str("2222"), Str("host")>>, "/srv", 301)>>]

WindowKinds == {SelfWindow, IdleShell, SshWindow}

\* the windows numbered 1, 2, ... in listing order
Numbered(ws) == [i \in 1..Len(ws) |-> [ws[i] EXCEPT !.id = i]]

\* lists of up to MaxWindows windows, at most one of them the command's own
WindowLists ==
    {Numbered(ws) : ws \in {l \in UNION {[1..n -> WindowKinds] : n \in 0..MaxWindows} :
                                Cardinality({i \in 1..Len(l) : l[i].is_self}) <= 1}}

Tab(id, ws) ==
    [id |-> id, title |-> Str("work"), is_active |-> TRUE, layout |-> "tall", windows |-> ws]

OsWindow(id, tabs) == [id |-> id, is_focused |-> TRUE, tabs |-> tabs]

\* the listings that hold the windows ws in this order: all in one tab, the
\* first in a tab of its own, or the last in an OS window of its own; with no
\* window, a listing may still hold an OS window or a tab
Trees(ws) ==
    IF Len(ws) = 0
    THEN {<< >>, <<OsWindow(1, << >>)>>, <<OsWindow(1, <<Tab(1, << >>)>>)>>}
    ELSE IF Len(ws) = 1 THEN {<<OsWindow(1, <<Tab(1, ws)>>)>>}
    ELSE {<<OsWindow(1, <<Tab(1, ws)>>)>>,
          <<OsWindow(1, <<Tab(1, <<Head(ws)>>), Tab(2, Tail(ws))>>)>>,
          <<OsWindow(1, <<Tab(1, SubSeq(ws, 1, Len(ws) - 1))>>),
            OsWindow(2, <<Tab(2, <<ws[Len(ws)]>>)>>)>>}

Listings == UNION {Trees(ws) : ws \in WindowLists}

Exit(rc, stdout, stderr) == [kind |-> "exit", rc |-> rc, stdout |-> stdout, stderr |-> stderr]

\* what "kitten @ ls" can do
LsOutcomes ==
    {Exit(0, [json |-> t], << >>) : t \in Listings}
    \cup {Exit(0, [raw |-> Str("<html>")], << >>),
          Exit(1, [raw |-> << >>], << >>),
          Exit(1, [raw |-> << >>], Str("no socket")),
          [kind |-> "timeout"],
          [kind |-> "missing"]}

\* what "kitten @ get-text" can do
TextOutcomes ==
    {Exit(0, << >>, << >>),
     Exit(0, Str("one\ntwo\nthree\n"), << >>),
     Exit(0, Str("Building...\nERROR: compilation failed\n"), << >>),
     [kind |-> "timeout"]}

\* what "git branch --show-current" can do
GitOutcomes ==
    {[kind |-> "exit", rc |-> 0, stdout |-> Str("main\n")],
     [kind |-> "exit", rc |-> 0, stdout |-> << >>],
     [kind |-> "exit", rc |-> 128, stdout |-> << >>],
     [kind |-> "raised"]}

(***************************************************************************)
(* Values of the variables an operation does not use                       *)
(***************************************************************************)

IdleCmd == cmdline = << >>
IdleEnv == env = << >>
IdleAge == now = 0 /\ created_at = 0 /\ ages = << >>
IdleScan == text = << >>
IdleSum ==
    /\ exclude_self = FALSE /\ lines = 0 /\ data = None /\ idx = 0
    /\ window_count = 0 /\ ready_windows = << >> /\ error_windows = << >>
    /\ output_parts = << >> /\ calls = << >> /\ result = None

(***************************************************************************)
(* SpecCmd: the classifier and the ssh extractor applied to a command line *)
(***************************************************************************)

InitCmd ==
    /\ pc = "start"
    /\ cmdline \in CmdLines
    /\ ret = NoCall
    /\ IdleEnv /\ IdleAge /\ IdleScan /\ IdleSum

CallCategorize ==
    /\ pc = "start"
    /\ ret' = [fn |-> "_categorize_process", val |-> CategorizeProcess(cmdline)]
    /\ pc' = "done"
    /\ UNCHANGED <<cmdVars, envVars, ageVars, scanVars, sumVars>>

CallExtractSshTarget ==
    /\ pc = "start"
    /\ ret' = [fn |-> "_extract_ssh_target", val |-> ExtractSshTarget(cmdline)]
    /\ pc' = "done"
    /\ UNCHANGED <<cmdVars, envVars, ageVars, scanVars, sumVars>>

NextCmd == CallCategorize \/ CallExtractSshTarget

SpecCmd == InitCmd /\ [][NextCmd]_vars

(***************************************************************************)
(* Classifier and ssh extractor: properties                                *)
(***************************************************************************)

\* C1: a command line whose first token has base name "git" is classified
\* exactly as git (the VCS category), whatever its arguments.
C1_GitIsAlwaysVcs ==
    (ret.fn = "_categorize_process" /\ Len(cmdline) > 0
        /\ LastSegment(cmdline[1], "/") = Str("git"))
    => ret.val = "git"

\* the token at index i is the value of a value-consuming option
RECURSIVE ConsumedAsValue(_, _)
ConsumedAsValue(cmdl, i) ==
    /\ i > 1
    /\ InNames(cmdl[i - 1], SshValueOptions)
    /\ ~ConsumedAsValue(cmdl, i - 1)

\* the token is an ssh invocation, in any letter case
IsSshInvocation(tok) == Lower(LastSegment(tok, "/")) = Str("ssh")

\* the indices left after skipping ssh invocations, flags and option values
RemainingTokens(cmdl) ==
    {i \in 1..Len(cmdl) :
        /\ ~ConsumedAsValue(cmdl, i)
        /\ ~StartsWith(cmdl[i], Str("-"))
        /\ ~IsSshInvocation(cmdl[i])}

\* the token at the least of the given indices
FirstTokenAt(cmdl, left) == IF left = {} THEN None ELSE Some(cmdl[Min(left)])

FirstRemainingToken(cmdl) == FirstTokenAt(cmdl, RemainingTokens(cmdl))

\* C7: for a command line containing "ssh " in any letter case, the target is
\* the first token left after skipping the ssh invocation token (in any
\* letter case), every flag and the value of every value-consuming option.
C7_SshTargetIsFirstRemainingToken ==
    (ret.fn = "_extract_ssh_target" /\ Contains(Lower(Join(cmdline, Str(" "))), Str("ssh ")))
    => ret.val = FirstRemainingToken(cmdline)

\* C7: the scenario of section 8 gives "prod.example.com"
C7_ScenarioTarget ==
    (ret.fn = "_extract_ssh_target" /\ cmdline = SshScenario)
    => ret.val = Some(Str("prod.example.com"))

\* the indices of the tokens that do not start with "-", whose base name is
\* not exactly "ssh", and that are not the value of a value-consuming option
TargetCandidates(cmdl) ==
    {i \in 1..Len(cmdl) :
        /\ ~ConsumedAsValue(cmdl, i)
        /\ cmdl[i] = << >> \/ cmdl[i][1] # "-"
        /\ LastSegment(cmdl[i], "/") # Str("ssh")}

\* C25: a target returned by _extract_ssh_target is the earliest token of
\* the command line that does not start with "-", whose base name is not
\* exactly "ssh" and that is not the value of a value-consuming option; when
\* there is no such token, none is returned.
C25_TargetIsEarliestCandidate ==
    ret.fn = "_extract_ssh_target" =>
        /\ "some" \in DOMAIN ret.val =>
              /\ TargetCandidates(cmdline) # {}
              /\ ret.val.some = cmdline[Min(TargetCandidates(cmdline))]
        /\ TargetCandidates(cmdline) = {} => ret.val = None

\* a target was returned from behind the value of a value-consuming option
C25_Witness ==
    /\ ret.fn = "_extract_ssh_target"
    /\ "some" \in DOMAIN ret.val
    /\ \E i \in 1..Len(cmdline) :
          /\ ConsumedAsValue(cmdline, i)
          /\ cmdline[i][1] # "-"
          /\ i < Min(TargetCandidates(cmdline))

\* a value-consuming option was the last token and none was returned
C25_OptionLast ==
    /\ ret.fn = "_extract_ssh_target"
    /\ Len(cmdline) > 1
    /\ cmdline[Len(cmdline)] \in SshValueOptions
    /\ ~ConsumedAsValue(cmdline, Len(cmdline))
    /\ ret.val = None

\* the base names the build rule lists
BuildTools ==
    Names({"make", "cmake", "cargo", "go", "gcc", "clang", "rustc", "npm", "yarn", "pnpm",
           "gradle", "mvn"})

\* C11: a command line whose first token has a base name of the build set is
\* classified build, also when "test" occurs in the joined command line.
C11_BuildBeforeTest ==
    (ret.fn = "_categorize_process" /\ Len(cmdline) > 0
        /\ LastSegment(cmdline[1], "/") \in BuildTools)
    => ret.val = "build"

\* ["npm", "run", "test:unit"] was classified, as build
C11_Witness ==
    /\ ret.fn = "_categorize_process"
    /\ cmdline = NpmScenario
    /\ Contains(FullCmd(cmdline), Str("test"))
    /\ ret.val = "build"

\* C27: a command line whose first token has base name "go" is classified
\* build, "go test ./..." included, and a command line classified test has
\* the base name of another test runner or holds "test" in its joined text:
\* none is classified test because of the base name "go".
C27_GoIsAlwaysBuild ==
    (ret.fn = "_categorize_process" /\ Len(cmdline) > 0) =>
        /\ BaseName(cmdline) = Str("go") => ret.val = "build"
        /\ ret.val = "test" =>
              \/ BaseName(cmdline) \in Names({"pytest", "jest", "mocha", "rspec"})
              \/ Contains(FullCmd(cmdline), Str("test"))

\* ["go", "test", "./..."] was classified, as build
C27_Witness ==
    /\ ret.fn = "_categorize_process"
    /\ cmdline = GoScenario
    /\ ret.val = "build"

\* the categories that have a rule, in the order of priority
PriorityOrder ==
    <<"shell", "editor", "build", "test", "server", "ssh", "agent", "git", "container",
      "viewer", "flutter", "script">>

\* every label the classifier can give
CategoryLabels == {PriorityOrder[k] : k \in 1..Len(PriorityOrder)} \cup {"process", "unknown"}

\* the rule of the category accepts the base name and the joined command line
RuleMatches(category, base, full_cmd) ==
    CASE category = "shell" -> base \in ShellNames
      [] category = "editor" -> base \in EditorNames
      [] category = "build" -> base \in BuildNames
      [] category = "test" -> base \in TestNames \/ Contains(full_cmd, Str("test"))
      [] category = "server" ->
            /\ base \in ServerNames
            /\ \E word \in Names({"server", "serve", "run"}) : Contains(full_cmd, word)
      [] category = "ssh" -> base = Str("ssh") \/ Contains(full_cmd, Str("ssh "))
      [] category = "agent" ->
            base \in AgentNames \/ \E word \in Names({"codex", "claude"}) : Contains(full_cmd, word)
      [] category = "git" -> base = Str("git")
      [] category = "container" -> base \in ContainerNames
      [] category = "viewer" -> base \in ViewerNames
      [] category = "flutter" -> base = Str("flutter") \/ Contains(full_cmd, Str("flutter"))
      [] category = "script" -> base \in ScriptNames

\* the positions in the order of priority of the rules that accept the command line
MatchingRules(cmdl) ==
    {k \in 1..Len(PriorityOrder) : RuleMatches(PriorityOrder[k], BaseName(cmdl), FullCmd(cmdl))}

\* C18: the category of a command line is that of the first rule, in the
\* order shell, editor, build, test, server, ssh, agent, git, container,
\* viewer, flutter, script, that accepts it; "process" when the command line
\* is not empty and no rule accepts it; "unknown" when it is empty; and
\* always one label of this closed set.
C18_FirstRuleInPriorityOrder ==
    ret.fn = "_categorize_process" =>
        /\ ret.val \in CategoryLabels
        /\ ret.val = (IF Len(cmdline) = 0 THEN "unknown"
                      ELSE IF MatchingRules(cmdline) = {} THEN "process"
                      ELSE PriorityOrder[Min(MatchingRules(cmdline))])

\* a command line the ssh rule and the agent rule both accept was classified ssh
C18_Witness ==
    /\ ret.fn = "_categorize_process"
    /\ Len(cmdline) > 0
    /\ {6, 7} \subseteq MatchingRules(cmdline)
    /\ ret.val = "ssh"

(***************************************************************************)
(* SpecEnv: _get_virtualenv applied to an environment mapping              *)
(***************************************************************************)

InitEnv ==
    /\ pc = "start"
    /\ env \in Envs
    /\ ret = NoCall
    /\ IdleCmd /\ IdleAge /\ IdleScan /\ IdleSum

CallGetVirtualenv ==
    /\ pc = "start"
    /\ ret' = [fn |-> "_get_virtualenv", val |-> GetVirtualenv(env)]
    /\ pc' = "done"
    /\ UNCHANGED <<cmdVars, envVars, ageVars, scanVars, sumVars>>

NextEnv == CallGetVirtualenv

SpecEnv == InitEnv /\ [][NextEnv]_vars

\* the key is set and its value is not the empty string
IsSet(e, key) == key \in DOMAIN e /\ Len(e[key]) > 0

\* seg is the part of s after its last "/" (all of s when it has none)
IsFinalSegment(seg, s) ==
    /\ \A i \in 1..Len(seg) : seg[i] # "/"
    /\ \E k \in 0..Len(s) : /\ seg = SubSeq(s, k + 1, Len(s))
                            /\ (k = 0 \/ s[k] = "/")

\* C8: VIRTUAL_ENV, when set and non-empty, gives its final path segment
\* whatever CONDA_DEFAULT_ENV holds; otherwise CONDA_DEFAULT_ENV, when set,
\* non-empty and not "base", gives "conda:" followed by it; otherwise none.
C8_VirtualenvPrefersVirtualEnv ==
    ret.fn = "_get_virtualenv" =>
        IF IsSet(env, "VIRTUAL_ENV")
        THEN /\ "some" \in DOMAIN ret.val
             /\ IsFinalSegment(ret.val.some, env["VIRTUAL_ENV"])
        ELSE IF IsSet(env, "CONDA_DEFAULT_ENV") /\ env["CONDA_DEFAULT_ENV"] # Str("base")
        THEN ret.val = Some(<<"c", "o", "n", "d", "a", ":">> \o env["CONDA_DEFAULT_ENV"])
        ELSE ret.val = None

\* both variables are set and the result came from VIRTUAL_ENV
C8_Witness ==
    /\ ret.fn = "_get_virtualenv"
    /\ IsSet(env, "VIRTUAL_ENV") /\ IsSet(env, "CONDA_DEFAULT_ENV")
    /\ env["CONDA_DEFAULT_ENV"] # Str("base")
    /\ ret.val = Some(Str(".venv"))

(***************************************************************************)
(* SpecAge: _format_age applied to several timestamps at one current time  *)
(***************************************************************************)

InitAge ==
    /\ pc = "start"
    /\ now = NowSec
    /\ created_at \in Timestamps
    /\ ages = << >>
    /\ ret = NoCall
    /\ IdleCmd /\ IdleEnv /\ IdleScan /\ IdleSum

CallFormatAge ==
    /\ pc = "start"
    /\ Len(ages) < MaxAgeCalls
    /\ LET age == FormatAge(created_at, now)
       IN  /\ ret' = [fn |-> "_format_age", val |-> age]
           /\ ages' = Append(ages, [created_at |-> created_at, age |-> age])
    /\ created_at' \in Timestamps
    /\ UNCHANGED <<pc, now, cmdVars, envVars, scanVars, sumVars>>

\* a call with None or with a value that does not convert
CallFormatAgeUnusable ==
    /\ pc = "start"
    /\ \E v \in {AbsentTimestamp, Unconvertible} :
         ret' = [fn |-> "_format_age", arg |-> v, val |-> FormatAgeOf(v, now)]
    /\ UNCHANGED <<pc, now, created_at, ages, cmdVars, envVars, scanVars, sumVars>>

NextAge == CallFormatAge \/ CallFormatAgeUnusable

SpecAge == InitAge /\ [][NextAge]_vars

\* the interval, in seconds, that an age string denotes
IntervalOf(age) ==
    age.n * (CASE age.unit = "d" -> 86400
               [] age.unit = "h" -> 3600
               [] age.unit = "m" -> 60
               [] OTHER -> 1)

\* a timestamp that is present and not after the current time
InThePast(t) == t # 0 /\ t <= now

\* C10: at a fixed current time, of two past timestamps the earlier one is
\* given an age that denotes an interval at least as long as the later one's.
C10_AgeIsMonotonic ==
    \A i, j \in 1..Len(ages) :
        (InThePast(ages[i].created_at) /\ InThePast(ages[j].created_at)
            /\ ages[i].created_at < ages[j].created_at)
        => IntervalOf(ages[i].age) >= IntervalOf(ages[j].age)

\* two past timestamps one second apart on either side of the day boundary
C10_Witness ==
    \E i, j \in 1..Len(ages) :
        /\ ages[i].created_at = now - 86400 /\ ages[i].age = [unit |-> "d", n |-> 1]
        /\ ages[j].created_at = now - 86399 /\ ages[j].age = [unit |-> "h", n |-> 23]

\* the age of e elapsed whole seconds, in the largest unit that applies
AgeOfElapsed(e) ==
    IF e >= 86400 THEN [unit |-> "d", n |-> e \div 86400]
    ELSE IF e >= 3600 THEN [unit |-> "h", n |-> e \div 3600]
    ELSE IF e >= 60 THEN [unit |-> "m", n |-> e \div 60]
    ELSE [unit |-> "s", n |-> e]

\* C19: _format_age gives "unknown" for a zero or absent timestamp; for a
\* timestamp e whole seconds in the past it gives e div 86400 days when
\* e >= 86400, else e div 3600 hours when e >= 3600, else e div 60 minutes
\* when e >= 60, else e seconds; and for a value that does not convert it
\* gives "unknown".
C19_LargestUnitOrUnknown ==
    /\ \A i \in 1..Len(ages) :
          /\ ages[i].created_at = 0 => ages[i].age = UnknownAge
          /\ InThePast(ages[i].created_at) =>
                ages[i].age = AgeOfElapsed(now - ages[i].created_at)
    /\ (ret.fn = "_format_age" /\ "arg" \in DOMAIN ret) => ret.val = UnknownAge

\* one call an hour back and one 59 seconds back were answered 1 hour and 59
\* seconds, and a call with a value that does not convert "unknown"
C19_Witness ==
    /\ Len(ages) = 2
    /\ ages[1].created_at = now - 3600 /\ ages[1].age = [unit |-> "h", n |-> 1]
    /\ ages[2].created_at = now - 59 /\ ages[2].age = [unit |-> "s", n |-> 59]
    /\ ret.fn = "_format_age" /\ "arg" \in DOMAIN ret
    /\ ret.arg = Unconvertible /\ ret.val = UnknownAge

(***************************************************************************)
(* SpecScan: _detect_errors applied to a text                              *)
(***************************************************************************)

InitScan ==
    /\ pc = "start"
    /\ text \in ScanTexts
    /\ ret = NoCall
    /\ IdleCmd /\ IdleEnv /\ IdleAge /\ IdleSum

CallDetectErrors ==
    /\ pc = "start"
    /\ LET scan == DetectScan(text)
       IN  ret' = [fn |-> "_detect_errors", val |-> scan.errors, scan |-> scan]
    /\ pc' = "done"
    /\ UNCHANGED <<cmdVars, envVars, ageVars, scanVars, sumVars>>

NextScan == CallDetectErrors

SpecScan == InitScan /\ [][NextScan]_vars

(***************************************************************************)
(* Error scanner: properties                                               *)
(***************************************************************************)

\* the line, lowercased and trimmed, as the scan sees it
Seen(line) == Strip(Lower(line))

\* the signatures the line matches
SignaturesOf(line) == {k \in 1..Len(ErrorPatterns) : ReSearch(k, Seen(line))}

\* the line is not skipped and matches at least one signature
IsTriggering(line) == ~IsSkippedLine(Seen(line)) /\ SignaturesOf(line) # {}

\* the descriptions (indices into fired) that came from the given line numbers
FiredBy(fired, numbers) == {f \in 1..Len(fired) : fired[f].line \in numbers}

\* the line numbers at which the content c occurs
Occurrences(recent, c) == {n \in 1..Len(recent) : recent[n] = c}

\* the triggering lines that occur at least twice
RepeatedTriggers(recent) ==
    {c \in {recent[n] : n \in 1..Len(recent)} :
        Cardinality(Occurrences(recent, c)) >= 2 /\ IsTriggering(c)}

ScenarioLines ==
    <<Str("Building..."), Str("ERROR: compilation failed"), Str("make: *** Error 1")>>

\* the text ends with a line terminator
IsTerminated(t) == Len(t) > 0 /\ t[Len(t)] = "\n"

\* the last three lines of the text are the scenario's, none of the recent
\* lines before them triggers (quiet), and the scan gave the result
ScenarioCase(recent, terminated, quiet) ==
    LET last == Len(recent) - (IF terminated THEN 1 ELSE 0)
    IN  /\ last >= 3
        /\ SubSeq(recent, last - 2, last) = ScenarioLines
        /\ quiet => \A i \in 1..(last - 3) : ~IsTriggering(recent[i])

\* C4 as claimed: a text ending in the scenario's three lines gives exactly
\* one description, tagged "Compilation failed".
C4_TaggedCompilationFailed ==
    (ret.fn = "_detect_errors" /\ ScenarioCase(RecentLinesOf(text), IsTerminated(text), FALSE))
    => /\ Len(ret.val) = 1
       /\ ret.val[1].description = "Compilation failed"

\* C4 amended: a text ending in the scenario's three lines, with no triggering
\* line before them among the recent lines, gives exactly one description; it
\* comes from "ERROR: compilation failed" and is tagged "Error", the label of
\* "^error:", the first signature of the list that matches the line.
C4_TaggedByFirstSignature ==
    (ret.fn = "_detect_errors" /\ ScenarioCase(RecentLinesOf(text), IsTerminated(text), TRUE))
    => /\ ret.val = <<[description |-> "Error", line |-> Str("ERROR: compilation failed")]>>
       /\ ErrorPatterns[ret.scan.fired[1].pattern].pattern = "^error:"

\* the scenario's text alone has been scanned
C4_Witness ==
    /\ ret.fn = "_detect_errors"
    /\ text = TextOf(ScenarioLines, FALSE)
    /\ Len(ret.val) = 1
    /\ ret.val[1].description = "Error"

\* at most 3 descriptions, and the scan stopped at the line of the third
StopsAtThird(scan, line_count) ==
    /\ Len(scan.errors) <= MaxErrors
    /\ \A f \in 1..Len(scan.fired) : scan.fired[f].line <= scan.examined
    /\ Len(scan.errors) = MaxErrors => scan.examined = scan.fired[MaxErrors].line
    /\ Len(scan.errors) < MaxErrors => scan.examined = line_count

\* C5: at most 3 descriptions are returned, and the scan stops at the line
\* that brought the third: no later line is examined.  (Of the empty text
\* no line is examined.)
C5_AtMostThreeThenStop ==
    ret.fn = "_detect_errors" =>
        /\ ret.val = ret.scan.errors
        /\ StopsAtThird(ret.scan, IF Len(text) = 0 THEN 0 ELSE Len(RecentLinesOf(text)))

\* a line after the last examined one would have fired a fresh signature
LeftUnexamined(scan, recent) ==
    \E n \in (scan.examined + 1)..Len(recent) :
        /\ ~IsSkippedLine(Seen(recent[n]))
        /\ FirstMatch(Seen(recent[n]), scan.seen_patterns) # 0

\* three descriptions were collected and a later line that would have fired a
\* fresh signature was left unexamined
C5_Witness ==
    /\ ret.fn = "_detect_errors"
    /\ Len(ret.val) = MaxErrors
    /\ LeftUnexamined(ret.scan, RecentLinesOf(text))

\* every triggering line that occurs twice yields exactly one description
OnePerRepeatedLine(fired, recent) ==
    \A c \in RepeatedTriggers(recent) :
        Cardinality(FiredBy(fired, Occurrences(recent, c))) = 1

OnlyFirstOccurrenceFires(fired, occ, first, sigs) ==
    /\ FiredBy(fired, occ \ {first}) = {}
    /\ Cardinality(FiredBy(fired, occ)) <= 1
    /\ (/\ Cardinality(FiredBy(fired, 1..(first - 1))) < MaxErrors
        /\ \A f \in FiredBy(fired, 1..(first - 1)) : fired[f].pattern \notin sigs)
       => Cardinality(FiredBy(fired, {first})) = 1

OnePerSignature(fired, recent) ==
    /\ \A f, g \in 1..Len(fired) : f # g => fired[f].pattern # fired[g].pattern
    /\ \A c \in RepeatedTriggers(recent) :
          Cardinality(SignaturesOf(c)) = 1
          => OnlyFirstOccurrenceFires(fired, Occurrences(recent, c),
                                      Min(Occurrences(recent, c)), SignaturesOf(c))

RepeatedLineFiredOnce(fired, recent) ==
    \E c \in RepeatedTriggers(recent) :
        /\ Cardinality(SignaturesOf(c)) = 1
        /\ Cardinality(FiredBy(fired, Occurrences(recent, c))) = 1

InitSummary ==
    /\ pc = "summary"
    /\ exclude_self \in BOOLEAN
    /\ lines \in LinesValues
    /\ now = NowSec
    /\ data = None /\ idx = 0
    /\ window_count = 0 /\ ready_windows = << >> /\ error_windows = << >>
    /\ output_parts = << >> /\ calls = << >> /\ result = None
    /\ ret = NoCall /\ created_at = 0 /\ ages = << >>
    /\ IdleCmd /\ IdleEnv /\ IdleScan

\* main, summary command: whatever summary returned is printed and main
\* returns, so the command ends with status 0
MainSummary(output) == [fn |-> "main", val |-> 0]

\* data = self.ls(); the error return, or the header and the three counters
SummaryLs ==
    /\ pc = "summary"
    /\ \E outcome \in LsOutcomes :
         /\ data' = Ls(RunKitten(outcome))
         /\ calls' = Append(calls, [call |-> "ls", outcome |-> outcome.kind,
                                    rc |-> RunKitten(outcome).rc,
                                    stdout |-> RunKitten(outcome).stdout])
    /\ IF HasError(data')
       THEN /\ result' = [error |-> Str("Error: ") \o data'.error]
            /\ ret' = MainSummary(result')
            /\ pc' = "done"
            /\ UNCHANGED <<idx, output_parts>>
       ELSE /\ output_parts' = ReportHeader(lines, now)
            /\ idx' = 1
            /\ pc' = "windows"
            /\ UNCHANGED <<result, ret>>
    /\ UNCHANGED <<exclude_self, lines, window_count, ready_windows, error_windows>>
    /\ UNCHANGED <<cmdVars, envVars, ageVars, scanVars>>

\* if exclude_self and is_self: continue
SummarySkipSelf ==
    /\ pc = "windows"
    /\ idx <= Len(Traversal(data.value))
    /\ exclude_self /\ Traversal(data.value)[idx].win.is_self
    /\ idx' = idx + 1
    /\ UNCHANGED <<pc, exclude_self, lines, data, window_count, ready_windows, error_windows,
                   output_parts, calls, result>>
    /\ UNCHANGED <<ret, cmdVars, envVars, ageVars, scanVars>>

\* every window is put in the ready list
ReadyAfterAlways(ready, win) == Append(ready, win.id)

\* the ready list after a window
ReadyAfter(ready, win) == IF win.at_prompt THEN Append(ready, win.id) ELSE ready

\* the error list after a window in whose text errors were detected
ErrorsAfter(errs, win, errors) == IF Len(errors) > 0 THEN Append(errs, win.id) ELSE errs

\* the text retrieval is made once more when it failed
VisitCallsRetrying(entry, git_branch, answer, txt) ==
    <<[call |-> "git_branch", cwd |-> ForegroundCwd(entry.win), returned |-> git_branch],
      [call |-> "get_text", window_id |-> entry.win.id, rc |-> answer.rc, returned |-> txt]>>
    \o (IF answer.rc # 0
        THEN <<[call |-> "get_text", window_id |-> entry.win.id, rc |-> answer.rc,
                returned |-> txt]>>
        ELSE << >>)

\* the external calls of one pass of the innermost loop, in the order made:
\* the branch query in the directory of the foreground process, then the
\* text retrieval of the window
VisitCalls(entry, git_branch, answer, txt) ==
    <<[call |-> "git_branch", cwd |-> ForegroundCwd(entry.win), returned |-> git_branch],
      [call |-> "get_text", window_id |-> entry.win.id, rc |-> answer.rc, returned |-> txt]>>

\* what the body of the innermost loop does to the locals, given what the
\* branch query returned, the transport's answer to get-text, the text and
\* the errors detected in it
WindowBody(entry, git_branch, answer, txt, errors) ==
    /\ output_parts' = output_parts \o WindowSection(entry, git_branch, txt, errors, lines, now)
    /\ error_windows' = ErrorsAfter(error_windows, entry.win, errors)
    /\ ready_windows' = ReadyAfter(ready_windows, entry.win)
    /\ calls' = calls \o VisitCalls(entry, git_branch, answer, txt)
    /\ window_count' = window_count + 1

\* the body of the innermost loop once the text is there, for each thing the
\* branch query can have done
VisitWithText(entry, answer, txt, errors) ==
    \E git \in GitOutcomes : WindowBody(entry, GetGitBranch(git), answer, txt, errors)

\* the body of the innermost loop for the window at entry, not skipped
VisitWindow(entry) ==
    /\ ~(exclude_self /\ entry.win.is_self)
    /\ \E got \in TextOutcomes :
         \E txt \in {GetText(RunKitten(got))} :
            \E errors \in {ErrorsOf(txt)} : VisitWithText(entry, RunKitten(got), txt, errors)

SummaryWindow ==
    /\ pc = "windows"
    /\ idx <= Len(Traversal(data.value))
    /\ \E entry \in {Traversal(data.value)[idx]} : VisitWindow(entry)
    /\ idx' = idx + 1
    /\ UNCHANGED <<pc, exclude_self, lines, data, result>>
    /\ UNCHANGED <<ret, cmdVars, envVars, ageVars, scanVars>>

\* the parts after the loops, and the return
SummaryReturn ==
    /\ pc = "windows"
    /\ idx > Len(Traversal(data.value))
    /\ output_parts' = output_parts \o Aggregate(window_count, ready_windows, error_windows)
    /\ result' = [report |-> output_parts']
    /\ ret' = MainSummary(result')
    /\ pc' = "done"
    /\ UNCHANGED <<exclude_self, lines, data, idx, window_count, ready_windows, error_windows,
                   calls>>
    /\ UNCHANGED <<cmdVars, envVars, ageVars, scanVars>>

NextSummary == SummaryLs \/ SummarySkipSelf \/ SummaryWindow \/ SummaryReturn

SpecSummary == InitSummary /\ [][NextSummary]_vars

(***************************************************************************)
(* summary: properties                                                     *)
(***************************************************************************)

\* the window with the given id in the listing
WindowById(tree, win_id) ==
    (CHOOSE e \in {Traversal(tree)[i] : i \in 1..Len(Traversal(tree))} : e.win.id = win_id).win

\* the value of the first row with the given name at or after index i
RowValue(parts, i, name) ==
    parts[Min({j \in i..Len(parts) : parts[j].kind = "row" /\ parts[j].name = name})].value

\* the headings of the window sections emitted so far
SectionStarts(parts) == {i \in 1..Len(parts) : parts[i].kind = "window_header"}

\* the window of the section at i has no foreground process and is reported
\* as a shell running "shell" with the window's own cwd and pid
ReportedAsShell(parts, i, win) ==
    Len(win.foreground_processes) = 0 =>
        /\ RowValue(parts, i, "Command") = Str("shell")
        /\ parts[i].process_type = "shell"
        /\ RowValue(parts, i, "Process") = "shell"
        /\ RowValue(parts, i, "CWD") = win.cwd
        /\ RowValue(parts, i, "PID") = win.pid

\* C2: every window listed with an empty foreground_processes gets the
\* command "shell" and the shell category in its section, with the cwd and
\* the pid of the window itself.
C2_EmptyForegroundIsShell ==
    \A i \in SectionStarts(output_parts) :
        ReportedAsShell(output_parts, i, WindowById(data.value, output_parts[i].win_id))

\* the listing command failed or timed out
ListingFailed == \E c \in 1..Len(calls) : calls[c].call = "ls" /\ calls[c].rc # 0

\* the windows whose text retrieval failed or timed out
TextFailedFor == {calls[c].window_id : c \in {k \in 1..Len(calls) :
                                                calls[k].call = "get_text" /\ calls[k].rc # 0}}

\* the run returned one error message and built no part of a report
AbortedWithError == pc = "done" /\ HasError(result) /\ output_parts = << >>

\* C3 as the specification states it: when the listing or the text retrieval
\* of any window fails or times out, the run ends with a single error message
\* and nothing partial.
C3_AnyFailureAborts ==
    (pc = "done" /\ (ListingFailed \/ TextFailedFor # {})) => AbortedWithError

\* the kinds of the parts of the section that starts at i, up to its end
SectionKinds(parts, i) ==
    {parts[j].kind : j \in i..Min({k \in i..Len(parts) : parts[k].kind = "section_end"})}

\* the section of the window is complete and shows "No output available"
\* in place of the text
SectionWithoutOutput(parts, win_id) ==
    \E i \in SectionStarts(parts) :
        /\ parts[i].win_id = win_id
        /\ "section_end" \in {parts[k].kind : k \in i..Len(parts)}
        /\ "no_output" \in SectionKinds(parts, i)
        /\ SectionKinds(parts, i) \cap {"text", "fence", "truncated"} = {}

\* the windows of the listing that self-exclusion does not skip
Eligible(tree, excl) ==
    {i \in 1..Len(Traversal(tree)) : ~(excl /\ Traversal(tree)[i].win.is_self)}

\* the run returned a report that has a section for every window not skipped
\* and the Summary block
ReturnedReport ==
    /\ "report" \in DOMAIN result
    /\ result.report = output_parts
    /\ Cardinality(SectionStarts(output_parts)) = Cardinality(Eligible(data.value, exclude_self))
    /\ "summary_title" \in {output_parts[k].kind : k \in 1..Len(output_parts)}

\* C3, amended: a failed or timed-out listing ends the run at once with a
\* single error message and no part of a report; a failed or timed-out text
\* retrieval does not end the run: that window's section is emitted with
\* "No output available" in place of its text, and the run goes on to return
\* the report with a section for every eligible window and the Summary block.
C3_OnlyListingFailureAborts ==
    /\ ListingFailed => (AbortedWithError /\ Len(calls) = 1)
    /\ \A w \in TextFailedFor :
          /\ SectionWithoutOutput(output_parts, w)
          /\ pc = "done" => ReturnedReport

\* the text retrieval of window 1 timed out and the report went on: window 2
\* has its text shown and the report was returned
C3_Witness ==
    /\ pc = "done"
    /\ TextFailedFor = {1}
    /\ "report" \in DOMAIN result
    /\ \E i \in SectionStarts(result.report) :
          result.report[i].win_id = 2 /\ "text" \in SectionKinds(result.report, i)

\* the kinds of the parts, in order
KindsOf(parts) == [k \in 1..Len(parts) |-> parts[k].kind]

\* the indices of the parts of the given kind
PartsOfKind(parts, kind) == {k \in 1..Len(parts) : parts[k].kind = kind}

\* C9: a report over zero eligible windows is the header followed by the
\* "No windows found" notice alone, with no Summary block; a report over at
\* least one eligible window has no notice and has the Summary block.
C9_NoticeOrSummary ==
    (pc = "done" /\ "report" \in DOMAIN result) =>
        IF Eligible(data.value, exclude_self) = {}
        THEN KindsOf(result.report) = <<"title", "generated", "showing", "rule", "no_windows">>
        ELSE /\ PartsOfKind(result.report, "no_windows") = {}
             /\ Cardinality(PartsOfKind(result.report, "summary_title")) = 1
             /\ Cardinality(PartsOfKind(result.report, "total")) = 1

\* the listing holds a window, the only one is the command's own and it was
\* skipped: the report was returned with the notice
C9_Witness ==
    /\ pc = "done" /\ "report" \in DOMAIN result
    /\ Len(Traversal(data.value)) > 0
    /\ Eligible(data.value, exclude_self) = {}
    /\ PartsOfKind(result.report, "no_windows") # {}

\* the branch query did not give a branch: it exited non-zero, printed
\* nothing but white space, or raised (timeout, missing binary, ...)
BranchQueryFailed(outcome) ==
    \/ outcome.kind # "exit"
    \/ outcome.rc # 0
    \/ Len(Strip(outcome.stdout)) = 0

\* the entry, among those of the traversal, of the window with the given id
EntryById(entries, win_id) ==
    entries[CHOOSE i \in 1..Len(entries) : entries[i].win.id = win_id]

\* the windows visited so far, in order: the entry of each, what the branch
\* query and the text retrieval returned for it, and the errors in its text
Visits(entries, log) ==
    [k \in 1..((Len(log) - 1) \div 2) |->
        [entry |-> EntryById(entries, log[2 * k + 1].window_id),
         branch |-> log[2 * k].returned,
         text |-> log[2 * k + 1].returned,
         errors |-> ErrorsOf(log[2 * k + 1].returned)]]

IsBranchRow(part) == part.kind = "row" /\ part.name = "Git Branch"

\* the parts without the Git Branch rows
WithoutBranchRows(parts) == SelectSeq(parts, LAMBDA part : ~IsBranchRow(part))

\* the Git Branch rows of the section of the window
BranchRows(parts, win_id) ==
    {j \in 1..Len(parts) :
        /\ IsBranchRow(parts[j])
        /\ \E i \in SectionStarts(parts) :
              /\ parts[i].win_id = win_id /\ i < j
              /\ \A k \in i..j : parts[k].kind # "section_end"}

\* the parts have a Git Branch row exactly when the query returned a branch,
\* and the row shows it
BranchRowIffBranch(parts, branch) ==
    IF branch = None THEN \A j \in 1..Len(parts) : ~IsBranchRow(parts[j])
    ELSE /\ Cardinality({j \in 1..Len(parts) : IsBranchRow(parts[j])}) = 1
         /\ \A j \in 1..Len(parts) : IsBranchRow(parts[j]) => parts[j].value = branch.some

\* the step visited a window: it kept the parts there were, and what it
\* appended and what it did to the counters is, apart from the Git Branch
\* row, what the listing entry and the text of the window alone determine;
\* the run goes on
VisitIsLocal(entry, branch, txt, errors, appended) ==
    /\ SubSeq(output_parts', 1, Len(output_parts)) = output_parts
    /\ WithoutBranchRows(appended) = WindowSection(entry, None, txt, errors, lines, now)
    /\ BranchRowIffBranch(appended, branch)
    /\ window_count' = window_count + 1
    /\ ready_windows' = (IF entry.win.at_prompt THEN Append(ready_windows, entry.win.id)
                         ELSE ready_windows)
    /\ error_windows' = (IF Len(errors) > 0 THEN Append(error_windows, entry.win.id)
                         ELSE error_windows)
    /\ pc' = "windows" /\ result' = result /\ idx' = idx + 1

\* the errors detected in each text a window can have
DetectedIn == [t \in {GetText(RunKitten(o)) : o \in TextOutcomes} |-> ErrorsOf(t)]

\* a step of the run, as far as the branch queries go
BranchStep ==
    /\ (pc = "windows" /\ calls' # calls) =>
          \A entry \in {EntryById(Traversal(data.value), calls'[Len(calls')].window_id)},
             txt \in {calls'[Len(calls')].returned} :
             \A errors \in {DetectedIn[txt]},
                appended \in {SubSeq(output_parts', Len(output_parts) + 1, Len(output_parts'))} :
                VisitIsLocal(entry, calls'[Len(calls') - 1].returned, txt, errors, appended)
    /\ (pc = "windows" /\ pc' = "done") =>
          /\ SubSeq(output_parts', 1, Len(output_parts)) = output_parts
          /\ "report" \in DOMAIN result' /\ result'.report = output_parts'
          /\ calls' = calls

\* C12: a branch query that fails, times out, exits non-zero or prints
\* nothing makes _get_git_branch return none; the section of that window
\* then only lacks the Git Branch row; the query of a window never ends the
\* run, never changes a part emitted before, and leaves the rest of the
\* window's section and the counters of the Summary block what the listing
\* and the window's text alone determine.
C12_BranchFailureIsLocal ==
    /\ \A o \in GitOutcomes : BranchQueryFailed(o) => GetGitBranch(o) = None
    /\ [][BranchStep]_vars

\* the visits of the run
VisitsMade == Visits(Traversal(data.value), calls)

\* the branch query of window 1 gave nothing and that of window 2 gave
\* "main": only the section of window 2 has the Git Branch row
C12_Witness ==
    /\ pc = "done"
    /\ Len(VisitsMade) = 2
    /\ VisitsMade[1].branch = None
    /\ VisitsMade[2].branch = Some(Str("main"))
    /\ BranchRows(output_parts, 1) = {}
    /\ BranchRows(output_parts, 2) # {}

(***************************************************************************)
(* summary: the status the command ends with                               *)
(***************************************************************************)

\* C13 as the specification states it: a summary run whose listing fails,
\* times out or cannot be decoded ends with a non-zero status of the command,
\* and every other run, whatever its branch queries and classifications
\* gave, ends with status 0.
C13_ListingFailureExitsNonZero ==
    pc = "done" => (ret.val # 0 <=> HasError(data))

(***************************************************************************)
(* SpecTail: the text block of a section, for a text and a line count      *)
(***************************************************************************)

\* the values of --lines: any integer, the default included in SpecSummary
TailCounts == (0 - MaxLines)..(MaxLines + 1)

\* window texts of up to MaxLines lines
TailTexts == {TextOf(b, t) : b \in LineLists(MaxLines), t \in BOOLEAN}

InitTail ==
    /\ pc = "start"
    /\ text \in TailTexts
    /\ lines \in TailCounts
    /\ ret = NoCall
    /\ exclude_self = FALSE /\ data = None /\ idx = 0
    /\ window_count = 0 /\ ready_windows = << >> /\ error_windows = << >>
    /\ output_parts = << >> /\ calls = << >> /\ result = None
    /\ IdleCmd /\ IdleEnv /\ IdleAge

\* the part of the loop body that appends the text of the window
AppendTextBlock ==
    /\ pc = "start"
    /\ output_parts' = output_parts \o TextBlock(text, lines)
    /\ pc' = "done"
    /\ UNCHANGED <<exclude_self, lines, data, idx, window_count, ready_windows, error_windows,
                   calls, result>>
    /\ UNCHANGED <<ret, cmdVars, envVars, ageVars, scanVars>>

NextTail == AppendTextBlock

SpecTail == InitTail /\ [][NextTail]_vars

\* the last n of the lines, none when n is not positive
LastLines(text_lines, n) ==
    IF n <= 0 THEN << >>
    ELSE SubSeq(text_lines, Max({Len(text_lines) - n, 0}) + 1, Len(text_lines))

\* C14 as the specification states it: for every line count n, zero and
\* negative counts included, the fenced block of a window's text holds the
\* last n lines of the text, so at most n lines, and the truncation notice is
\* there exactly when the text has more than n lines.
C14_BlockIsLastLines ==
    (pc = "done" /\ PartsOfKind(output_parts, "fence") # {}) =>
        /\ \A i \in PartsOfKind(output_parts, "text") :
               output_parts[i].text = Join(LastLines(TextLines(text), lines), Str("\n"))
        /\ PartsOfKind(output_parts, "truncated") # {} <=> Len(TextLines(text)) > lines

\* the same for positive counts only
C14_PositiveCounts == lines > 0 => C14_BlockIsLastLines

(***************************************************************************)
(* SpecAggregate: the Summary block, for the locals the loops leave        *)
(***************************************************************************)

\* number of windows counted by the loops
MaxCounted == 11

\* which of the counted windows are in a list: windows at their prompt, or
\* windows with detected errors
ListPatterns == {"all", "none", "odd", "even", "first"}

InPattern(pattern, i) ==
    CASE pattern = "all" -> TRUE
      [] pattern = "none" -> FALSE
      [] pattern = "odd" -> i % 2 = 1
      [] pattern = "even" -> i % 2 = 0
      [] pattern = "first" -> i = 1

\* the ids of the first n windows of the traversal that are in the pattern,
\* in traversal order: the windows are numbered in listing order
IdsIn(pattern, n) == SelectSeq([i \in 1..n |-> i], LAMBDA i : InPattern(pattern, i))

InitAggregate ==
    /\ pc = "start"
    /\ window_count \in 0..MaxCounted
    /\ \E p \in ListPatterns : ready_windows = IdsIn(p, window_count)
    /\ \E p \in ListPatterns : error_windows = IdsIn(p, window_count)
    /\ exclude_self = FALSE /\ lines = 0 /\ data = None /\ idx = 0
    /\ output_parts = << >> /\ calls = << >> /\ result = None
    /\ ret = NoCall
    /\ IdleCmd /\ IdleEnv /\ IdleAge /\ IdleScan

\* the part of summary after the loops that appends the Summary block
AppendAggregate ==
    /\ pc = "start"
    /\ output_parts' = output_parts \o Aggregate(window_count, ready_windows, error_windows)
    /\ pc' = "done"
    /\ UNCHANGED <<exclude_self, lines, data, idx, window_count, ready_windows, error_windows,
                   calls, result>>
    /\ UNCHANGED <<ret, cmdVars, envVars, ageVars, scanVars>>

NextAggregate == AppendAggregate

SpecAggregate == InitAggregate /\ [][NextAggregate]_vars

\* the only part of the given kind
ThePart(parts, kind) == parts[CHOOSE k \in PartsOfKind(parts, kind) : TRUE]

\* C15: when at least one window was counted, the Summary block has one
\* total line with the number of windows counted; one ready line with the
\* number of all ready windows and the ids of the first 10 of them in
\* traversal order, all of them when there are 10 or fewer; and, when errors
\* were detected in some window, one errors line with the number of such
\* windows and the ids of all of them.
C15_AggregateBlock ==
    (pc = "done" /\ window_count > 0) =>
        /\ Cardinality(PartsOfKind(output_parts, "total")) = 1
        /\ ThePart(output_parts, "total").n = window_count
        /\ Cardinality(PartsOfKind(output_parts, "ready")) = 1
        /\ ThePart(output_parts, "ready").n = Len(ready_windows)
        /\ ThePart(output_parts, "ready").ids =
               IF Len(ready_windows) <= 10 THEN ready_windows ELSE SubSeq(ready_windows, 1, 10)
        /\ Cardinality(PartsOfKind(output_parts, "errors")) = (IF Len(error_windows) > 0 THEN 1 ELSE 0)
        /\ Len(error_windows) > 0 =>
               /\ ThePart(output_parts, "errors").n = Len(error_windows)
               /\ ThePart(output_parts, "errors").ids = error_windows

\* more than 10 windows are ready and more than 10 have errors: 10 ready ids
\* are displayed under the full count, and every id with errors
C15_Witness ==
    /\ pc = "done"
    /\ Len(ready_windows) > 10 /\ Len(error_windows) > 10
    /\ ThePart(output_parts, "ready").n = Len(ready_windows)
    /\ Len(ThePart(output_parts, "ready").ids) = 10
    /\ Len(ThePart(output_parts, "errors").ids) = Len(error_windows)

(***************************************************************************)
(* summary: the external calls of a run                                    *)
(***************************************************************************)

\* the calls the first upto entries of the traversal are due: none for an
\* entry skipped by self-exclusion, and for any other entry one branch
\* query followed by one text retrieval
CallsDue(entries, excl, upto) ==
    Concat([i \in 1..upto |->
        IF excl /\ entries[i].win.is_self THEN << >>
        ELSE <<[call |-> "git_branch", win |-> entries[i].win],
               [call |-> "get_text", win |-> entries[i].win]>>])

\* the calls logged after the listing are the calls due, one for one
CallsAre(log, due) ==
    /\ Len(log) = 1 + Len(due)
    /\ log[1].call = "ls"
    /\ \A k \in 1..Len(due) :
          /\ log[k + 1].call = due[k].call
          /\ due[k].call = "git_branch" => log[k + 1].cwd = ForegroundCwd(due[k].win)
          /\ due[k].call = "get_text" => log[k + 1].window_id = due[k].win.id

\* C16: at every point of a summary run the external calls made so far are:
\* nothing before the listing; the one listing alone when it failed; and
\* otherwise the one listing followed, for each window the traversal has
\* passed that self-exclusion does not skip, in traversal order, by one
\* branch query and then one text retrieval of that window, whatever the
\* calls returned.
C16_CallSequence ==
    /\ pc = "summary" => calls = << >>
    /\ (pc # "summary" /\ HasError(data)) => (Len(calls) = 1 /\ calls[1].call = "ls")
    /\ (pc # "summary" /\ ~HasError(data)) =>
          CallsAre(calls, CallsDue(Traversal(data.value), exclude_self, idx - 1))

\* a run over two windows, the first the command's own and skipped, the
\* second with a branch query that gave nothing and a text retrieval that
\* failed: three calls in all
C16_Witness ==
    /\ pc = "done" /\ ~HasError(data) /\ exclude_self
    /\ Len(Traversal(data.value)) = 2
    /\ Traversal(data.value)[1].win.is_self
    /\ Len(calls) = 3
    /\ calls[2].call = "git_branch" /\ calls[2].returned = None
    /\ calls[3].call = "get_text" /\ calls[3].rc # 0

(***************************************************************************)
(* Error scanner: the lines examined                                       *)
(***************************************************************************)

\* the final 30 lines of content of the text, all of them when there are fewer
FinalContent(t) == Join(LastN(TextLines(t), 30), Str("\n"))

\* C17 as the specification states it: _detect_errors examines exactly the
\* final 30 lines of content of the text, whether or not the text ends with a
\* line terminator: what it returns for a text is what it returns for the
\* final 30 lines of content of that text alone.
C17_ExaminesFinalThirtyLines ==
    (pc = "done" /\ ret.fn = "_detect_errors") => ret.val = DetectErrors(FinalContent(text))

\* the same for the texts that do not end with a line terminator
C17_Unterminated == IsTerminated(text) \/ C17_ExaminesFinalThirtyLines

(***************************************************************************)
(* ls: the two error values                                                *)
(***************************************************************************)

\* the transport's answer to the listing command, as logged
ListingAnswer == calls[1]

\* the transport answered with status 0 and a text that does not decode
MalformedListing == ListingAnswer.rc = 0 /\ "raw" \in DOMAIN ListingAnswer.stdout

\* C20: once ls has returned, it has returned a value.  For a transport
\* that answered with status 0 and a text that does not decode, the value
\* is an error value that carries that text as its raw payload; for a
\* transport that failed (non-zero status, timeout, missing binary) it is an
\* error value without a raw payload, so the two are told apart; and for a
\* listing that decodes it is no error value.
C20_TwoErrorValues ==
    pc # "summary" =>
        /\ data # None
        /\ MalformedListing =>
              (HasError(data) /\ "raw" \in DOMAIN data /\ data.raw = ListingAnswer.stdout.raw)
        /\ ListingAnswer.rc # 0 => (HasError(data) /\ "raw" \notin DOMAIN data)
        /\ (ListingAnswer.rc = 0 /\ ~MalformedListing) => ~HasError(data)

\* the transport answered "<html>" with status 0 and ls returned the error
\* value with that text as raw payload
C20_Witness ==
    /\ pc = "done"
    /\ MalformedListing
    /\ Len(ListingAnswer.stdout.raw) > 0
    /\ HasError(data) /\ "raw" \in DOMAIN data
    /\ data.raw = ListingAnswer.stdout.raw

\* the transport timed out and ls returned the error value without payload
C20_TimeoutCase ==
    /\ pc = "done"
    /\ ListingAnswer.outcome = "timeout"
    /\ HasError(data) /\ "raw" \notin DOMAIN data

(***************************************************************************)
(* Error scanner: the lines that are noise                                 *)
(***************************************************************************)

\* the line, trimmed and lowercased, is empty, or begins with one of the five
\* prompt glyphs or with info, warn, debug or notice
IsNoise(line) ==
    \/ Seen(line) = << >>
    \/ \E glyph \in {"#", "~", "$", "%", ">"} : StartsWith(Seen(line), <<glyph>>)
    \/ \E level \in {"info", "warn", "debug", "notice"} : StartsWith(Seen(line), Str(level))

\* a line of each kind of noise, each holding the text of an error signature
NoiseSamples ==
    {Str("   ")}
    \cup {Str(glyph) \o Str(" error: build failed") : glyph \in {"#", "~", "$", "%", ">"}}
    \cup {Str(level) \o Str(": error: tests failed") :
             level \in {"info", "INFO", "warn", "Warning", "debug", "  DEBUG", "notice"}}

\* each sample is noise, and alone or before a line with the same signature
\* it yields nothing and leaves the signature free to fire on the later line
NoiseSamplesAreSilent ==
    \A sample \in NoiseSamples :
        /\ IsNoise(sample)
        /\ DetectErrors(sample) = << >>
        /\ DetectScan(sample).seen_patterns = {}
        /\ Len(DetectErrors(sample \o Str("\nerror: build failed"))) = 1

\* C21: a line that is noise never yields a description, whatever signatures
\* it holds, and marks no signature as fired: every description of a scan
\* comes from a line that is not noise, and the signatures marked are those
\* of the descriptions.
C21_NoiseIsSilent ==
    /\ NoiseSamplesAreSilent
    /\ ret.fn = "_detect_errors" =>
          /\ \A f \in 1..Len(ret.scan.fired) :
                ~IsNoise(RecentLinesOf(text)[ret.scan.fired[f].line])
          /\ Len(ret.val) = Len(ret.scan.fired)
          /\ ret.scan.seen_patterns =
                {ret.scan.fired[f].pattern : f \in 1..Len(ret.scan.fired)}

\* a scanned text has a line that is noise and holds a signature, followed
\* by a line that fired that same signature
C21_Witness ==
    /\ ret.fn = "_detect_errors"
    /\ \E n \in 1..Len(RecentLinesOf(text)) :
          /\ IsNoise(RecentLinesOf(text)[n])
          /\ SignaturesOf(RecentLinesOf(text)[n]) # {}
          /\ \E f \in 1..Len(ret.scan.fired) :
                /\ ret.scan.fired[f].line > n
                /\ ret.scan.fired[f].pattern \in SignaturesOf(RecentLinesOf(text)[n])

(***************************************************************************)
(* Error scanner: one description per line, by the first free signature    *)
(***************************************************************************)

\* the signatures that fired before the f-th description
FiredBefore(fired, f) == {fired[g].pattern : g \in 1..(f - 1)}

\* the signatures that fired on a line before line n
FiredAbove(fired, n) == {fired[g].pattern : g \in {h \in 1..Len(fired) : fired[h].line < n}}

\* the descriptions come from lines further and further down, each tagged
\* with the label of the first signature, in list order, that matches its
\* line and did not fire before
TaggedByFirstFree(scan, recent) ==
    \A f \in 1..Len(scan.fired) :
        /\ f > 1 => scan.fired[f - 1].line < scan.fired[f].line
        /\ scan.fired[f].pattern \in SignaturesOf(recent[scan.fired[f].line])
        /\ scan.fired[f].pattern \notin FiredBefore(scan.fired, f)
        /\ \A k \in SignaturesOf(recent[scan.fired[f].line]) \ FiredBefore(scan.fired, f) :
              scan.fired[f].pattern <= k
        /\ scan.errors[f].description = ErrorPatterns[scan.fired[f].pattern].description

\* an examined line that is not noise and gave no description matches no
\* signature that was still free
SilentLinesHadNoFree(scan, recent) ==
    \A n \in 1..scan.examined :
        (~IsNoise(recent[n]) /\ FiredBy(scan.fired, {n}) = {})
        => SignaturesOf(recent[n]) \subseteq FiredAbove(scan.fired, n)

\* C22: every examined line gives at most one description, tagged with the
\* label of the first signature of the list that matches the line and has
\* not fired earlier in the scan, and none only when no such signature is
\* left; so no signature gives two descriptions, and the descriptions are in
\* the order of their lines.
C22_FirstFreeSignaturePerLine ==
    ret.fn = "_detect_errors" =>
        /\ Len(ret.val) = Len(ret.scan.fired)
        /\ TaggedByFirstFree(ret.scan, RecentLinesOf(text))
        /\ SilentLinesHadNoFree(ret.scan, RecentLinesOf(text))
        /\ \A f, g \in 1..Len(ret.scan.fired) :
              f # g => ret.scan.fired[f].pattern # ret.scan.fired[g].pattern

\* a line was tagged by a later signature because the first one it matches
\* had fired on an earlier line
C22_Witness ==
    /\ ret.fn = "_detect_errors"
    /\ \E f \in 1..Len(ret.scan.fired) :
          /\ f > 1
          /\ ret.scan.fired[f].pattern >
                Min(SignaturesOf(RecentLinesOf(text)[ret.scan.fired[f].line]))

(***************************************************************************)
(* summary: the windows with detected errors                               *)
(***************************************************************************)

\* the section of the window has the block of detected errors
HasErrorBlock(parts, win_id) ==
    \E i \in SectionStarts(parts) :
        parts[i].win_id = win_id /\ "errors_title" \in SectionKinds(parts, i)

\* C23 as the specification states it: a window whose text retrieval failed
\* is not in the list of windows with detected errors and its section has no
\* block of detected errors.
C23_FailedRetrievalIsNoError ==
    \A w \in TextFailedFor :
        /\ \A k \in 1..Len(error_windows) : error_windows[k] # w
        /\ ~HasErrorBlock(output_parts, w)

(***************************************************************************)
(* summary: the counters during the traversal                              *)
(***************************************************************************)

\* the windows the traversal has passed and self-exclusion did not skip, in
\* traversal order
VisitedWindows ==
    IF pc = "summary" \/ HasError(data) THEN << >>
    ELSE SelectSeq([i \in 1..(idx - 1) |-> Traversal(data.value)[i].win],
                   LAMBDA win : ~(exclude_self /\ win.is_self))

\* the ids of the windows, in their order
IdsOf(wins) == [i \in 1..Len(wins) |-> wins[i].id]

\* sub is full with some elements left out
RECURSIVE IsSubsequence(_, _)
IsSubsequence(sub, full) ==
    IF Len(sub) = 0 THEN TRUE
    ELSE IF Len(full) = 0 THEN FALSE
    ELSE IF Head(sub) = Head(full) THEN IsSubsequence(Tail(sub), Tail(full))
    ELSE IsSubsequence(sub, Tail(full))

\* C24: at every point of a summary run the window count is the number of
\* window sections emitted and the number of windows passed that
\* self-exclusion did not skip; the ready list holds exactly those of them
\* that are at their prompt, in traversal order; the error list is a
\* sub-sequence of them; so neither list is longer than the window count.
C24_CountersFollowTraversal ==
    /\ window_count = Cardinality(SectionStarts(output_parts))
    /\ window_count = Len(VisitedWindows)
    /\ ready_windows = IdsOf(SelectSeq(VisitedWindows, LAMBDA win : win.at_prompt))
    /\ IsSubsequence(error_windows, IdsOf(VisitedWindows))
    /\ Len(ready_windows) <= window_count
    /\ Len(error_windows) <= window_count

\* a traversal of two windows ended with two windows counted, one of them
\* ready and the other one with errors
C24_Witness ==
    /\ pc = "done" /\ ~HasError(data)
    /\ Len(Traversal(data.value)) = 2
    /\ window_count = 2
    /\ Len(ready_windows) = 1
    /\ Len(error_windows) = 1
    /\ ready_windows # error_windows

(***************************************************************************)
(* SpecTable: the heading and the table of a window, for the command line  *)
(* of its foreground process                                               *)
(***************************************************************************)

\* a window whose first foreground process runs the command line
RunningWindow(cmdl) ==
    [Numbered(<<SshWindow>>)[1] EXCEPT
        !.foreground_processes = <<[@[1] EXCEPT !.cmdline = cmdl]>>]

\* the window in the only tab of the only OS window
OnlyEntry(win) == [os_id |-> 1, tab_id |-> 1, tab_title |-> Str("work"), win |-> win]

InitTable ==
    /\ pc = "start"
    /\ cmdline \in CmdLines
    /\ now = NowSec
    /\ created_at = 0 /\ ages = << >>
    /\ ret = NoCall
    /\ IdleEnv /\ IdleScan /\ IdleSum

\* the part of the loop body from the foreground process to the table
AppendWindowTable ==
    /\ pc = "start"
    /\ \E win \in {RunningWindow(cmdline)} :
         output_parts' = output_parts \o
             WindowTable(OnlyEntry(win), win, ForegroundCmd(win),
                         CategorizeProcess(ForegroundCmd(win)), None, now)
    /\ pc' = "done"
    /\ UNCHANGED <<exclude_self, lines, data, idx, window_count, ready_windows, error_windows,
                   calls, result>>
    /\ UNCHANGED <<ret, cmdVars, envVars, ageVars, scanVars>>

NextTable == AppendWindowTable

SpecTable == InitTable /\ [][NextTable]_vars

\* the rows of the given name
RowsNamed(parts, name) == {k \in PartsOfKind(parts, "row") : parts[k].name = name}

\* C26 as the specification states it: the table of a window has an SSH
\* Target row only if the Process row of the window says ssh.
C26_SshTargetOnlyForSsh ==
    (pc = "done" /\ RowsNamed(output_parts, "SSH Target") # {}) =>
        \A k \in RowsNamed(output_parts, "Process") : output_parts[k].value = "ssh"

====
